---- MODULE Spec2Model ----
(***************************************************************************)
(* Model of the hash-anchored edit engine of hashline-opencode.            *)
(*                                                                         *)
(* A string is a sequence of one-character strings, a line sequence is a   *)
(* sequence of such strings.  applyHashlineEditsWithReport is a state      *)
(* machine whose program counter follows the body of the function          *)
(* (dedupe and sort, validate, detect overlaps, apply edit by edit, join). *)
(* The read enhancer hook is a second state machine: one call of an        *)
(* operation of the hook object on a tool result or on a message list.     *)
(* autocorrectReplacementLines is a third one, step by step, on original   *)
(* ranges and replacements long enough for its heuristics to act, and a    *)
(* call of countLineDiffs on two contents is a fourth.                     *)
(***************************************************************************)
EXTENDS Integers, Sequences, FiniteSets

VARIABLES content, edits, pc, sortedEdits, deduplicatedEdits, lines, idx,
          noopEdits, error, outContent,
          operation, tool, toolOutput, output, metadata, files, messages, hookPc,
          acOriginalLines, acReplacementLines, afterExpand, afterRestore, afterIndent,
          autocorrectPc,
          diffOldContent, diffNewContent, additions, deletions, diffPc

\* the state of a run of applyHashlineEditsWithReport
editVars == <<content, edits, pc, sortedEdits, deduplicatedEdits, lines, idx,
              noopEdits, error, outContent>>

\* the state of a call of the hook: the operation called, the tool name of
\* input.tool, the output.output the tool produced and the one the hook
\* leaves, output.metadata, the file system, output.messages
hookVars == <<operation, tool, toolOutput, output, metadata, files, messages, hookPc>>

\* the state of a call of autocorrectReplacementLines: its two arguments and
\* the value of next after each of its three steps
autocorrectVars ==
  <<acOriginalLines, acReplacementLines, afterExpand, afterRestore, afterIndent,
    autocorrectPc>>

\* the state of a call of countLineDiffs: its two arguments and the two
\* counts it returns
diffVars == <<diffOldContent, diffNewContent, additions, deletions, diffPc>>

vars == <<editVars, hookVars, autocorrectVars, diffVars>>

(***************************************************************************)
(* Strings                                                                 *)
(***************************************************************************)

\* /\s/ of the regular expressions used by the code
IsWs(c) == c \in {" ", "\t", "\n"}

Min(a, b) == IF a < b THEN a ELSE b

Max(a, b) == IF a > b THEN a ELSE b

\* s.slice(from, to) with 0-based, end-exclusive indices already in range
Slice(s, from, to) == SubSeq(s, from + 1, to)

RECURSIVE Concat(_)
\* lines.join("")
Concat(ls) == IF ls = <<>> THEN <<>> ELSE Head(ls) \o Concat(Tail(ls))

RECURSIVE Join(_, _)
\* lines.join(sep)
Join(ls, sep) ==
  IF ls = <<>> THEN <<>>
  ELSE IF Len(ls) = 1 THEN ls[1]
  ELSE ls[1] \o <<sep>> \o Join(Tail(ls), sep)

\* the position of the k-th separator of s, 0 before the first and
\* Len(s) + 1 after the last
SeparatorAt(s, sep, k) ==
  LET at == {i \in 1..Len(s) : s[i] = sep}
  IN  IF k = 0 THEN 0
      ELSE IF k > Cardinality(at) THEN Len(s) + 1
      ELSE CHOOSE p \in at : Cardinality({q \in at : q < p}) = k - 1

\* text.split(sep) for a one-character separator: "" splits to [""]
Split(s, sep) ==
  [k \in 1..(Cardinality({i \in 1..Len(s) : s[i] = sep}) + 1) |->
     SubSeq(s, SeparatorAt(s, sep, k - 1) + 1, SeparatorAt(s, sep, k) - 1)]

\* text.replace(/\s+/g, "")
stripAllWhitespace(text) == SelectSeq(text, LAMBDA c : ~IsWs(c))

\* the length of the match of /^\s*/
LeadingWsLen(text) ==
  LET stops == {i \in 1..Len(text) : ~IsWs(text[i])}
  IN  IF stops = {} THEN Len(text)
      ELSE (CHOOSE i \in stops : \A j \in stops : i <= j) - 1

leadingWhitespace(text) == SubSeq(text, 1, LeadingWsLen(text))

\* text with the match of /\s*$/ removed
TrimEnd(text) ==
  LET stops == {i \in 1..Len(text) : ~IsWs(text[i])}
  IN  IF stops = {} THEN <<>>
      ELSE SubSeq(text, 1, CHOOSE i \in stops : \A j \in stops : i >= j)

\* text.trim()
Trim(text) ==
  LET t == TrimEnd(text) IN SubSeq(t, LeadingWsLen(t) + 1, Len(t))

\* text.endsWith(suffix)
EndsWith(text, suffix) ==
  /\ Len(suffix) <= Len(text)
  /\ SubSeq(text, Len(text) - Len(suffix) + 1, Len(text)) = suffix

\* hay.indexOf(needle, from): 0-based, -1 when absent
indexOf(hay, needle, from) ==
  LET hits == {i \in Min(from, Len(hay))..(Len(hay) - Len(needle)) :
                 SubSeq(hay, i + 1, i + Len(needle)) = needle}
  IN  IF hits = {} THEN -1 ELSE CHOOSE i \in hits : \A j \in hits : i <= j

\* arr.splice(start, deleteCount, ...items) on a copy, with the clamping of
\* Array.prototype.splice
Splice(arr, start, deleteCount, items) ==
  LET s == IF start < 0 THEN Max(Len(arr) + start, 0) ELSE Min(start, Len(arr))
      d == Min(Max(deleteCount, 0), Len(arr) - s)
  IN  SubSeq(arr, 1, s) \o items \o SubSeq(arr, s + d + 1, Len(arr))

ContinuationTokens2 == {<<"&", "&">>, <<"|", "|">>, <<"?", "?">>}

ContinuationTokens1 == {"?", ":", "=", ",", "+", "-", "*", "/", ".", "("}

\* text.replace(/(?:&&|\|\||\?\?|\?|:|=|,|\+|-|\*|\/|\.|\()\s*$/u, "")
stripTrailingContinuationTokens(text) ==
  LET t == TrimEnd(text)
      n == Len(t)
  IN  IF n >= 2 /\ SubSeq(t, n - 1, n) \in ContinuationTokens2
        THEN SubSeq(t, 1, n - 2)
      ELSE IF n >= 1 /\ t[n] \in ContinuationTokens1
        THEN SubSeq(t, 1, n - 1)
      ELSE text

(***************************************************************************)
(* Autocorrection heuristics                                               *)
(***************************************************************************)

\* the longest span restoreOldWrappedLines tries
WrapMaxSpan == 10

\* the shortest canonical form restoreOldWrappedLines accepts
WrapMinCanonical == 6

RECURSIVE SplitSemicolon(_, _)
\* merged.split(/;\s+/)
SplitSemicolon(s, cur) ==
  IF s = <<>> THEN <<cur>>
  ELSE IF Head(s) = ";" /\ Len(s) >= 2 /\ IsWs(s[2])
    THEN LET rest == Tail(s)
         IN  <<cur>> \o SplitSemicolon(SubSeq(rest, LeadingWsLen(rest) + 1, Len(rest)), <<>>)
  ELSE SplitSemicolon(Tail(s), Append(cur, Head(s)))

semicolonSplitFallback(merged, expectedCount, replacementLines) ==
  LET arr == SplitSemicolon(merged, <<>>)
      withSemi == [i \in 1..Len(arr) |->
                     IF i < Len(arr) /\ ~EndsWith(arr[i], <<";">>)
                       THEN Append(arr[i], ";") ELSE arr[i]]
      trimmed == [i \in 1..Len(arr) |-> Trim(withSemi[i])]
      semicolonSplit == SelectSeq(trimmed, LAMBDA l : Len(l) > 0)
  IN  IF Len(semicolonSplit) = expectedCount THEN semicolonSplit ELSE replacementLines

\* one iteration of the loop over parts: where part is found in merged from
\* offset on, as it is or else without its trailing continuation token
\* (idx = -1: not found), and the length matched there
FindPart(merged, part, offset) ==
  LET Stripped(stripped) ==
        IF stripped = part THEN [idx |-> -1, matchedLen |-> Len(part)]
        ELSE LET At(i) == [idx |-> i,
                           matchedLen |-> IF i # -1 THEN Len(stripped) ELSE Len(part)]
             IN  At(indexOf(merged, stripped, offset))
      Whole(i) ==
        IF i # -1 THEN [idx |-> i, matchedLen |-> Len(part)]
        ELSE Stripped(stripTrailingContinuationTokens(part))
  IN  Whole(indexOf(merged, part, offset))

RECURSIVE LocateParts(_, _, _, _)
\* the loop over parts: the indices found, or ok = FALSE at the first part
\* that is not found
LocateParts(parts, merged, offset, indices) ==
  IF parts = <<>> THEN [ok |-> TRUE, indices |-> indices]
  ELSE LET Found(f) ==
             IF f.idx = -1 THEN [ok |-> FALSE, indices |-> indices]
             ELSE LocateParts(Tail(parts), merged, f.idx + f.matchedLen,
                              Append(indices, f.idx))
       IN  Found(FindPart(merged, Head(parts), offset))

\* the second loop: merged cut at the indices, every piece trimmed
ExpandAt(merged, indices) ==
  [i \in 1..Len(indices) |->
     Trim(Slice(merged, indices[i],
                IF i + 1 <= Len(indices) THEN indices[i + 1] ELSE Len(merged)))]

maybeExpandSingleLineMerge(originalLines, replacementLines) ==
  LET Located(merged, loc) ==
        LET Expanded(expanded) ==
              IF /\ loc.ok
                 /\ \A i \in 1..Len(expanded) : Len(expanded[i]) # 0
                 /\ Len(expanded) = Len(originalLines)
                THEN expanded
              ELSE semicolonSplitFallback(merged, Len(originalLines), replacementLines)
        IN  Expanded(ExpandAt(merged, loc.indices))
      Parts(parts) ==
        IF Len(parts) # Len(originalLines) THEN replacementLines
        ELSE Located(replacementLines[1], LocateParts(parts, replacementLines[1], 0, <<>>))
  IN  IF Len(replacementLines) # 1 \/ Len(originalLines) <= 1 THEN replacementLines
      ELSE Parts(SelectSeq([i \in 1..Len(originalLines) |-> Trim(originalLines[i])],
                           LAMBDA l : Len(l) > 0))

\* the canonical form of the span of len lines starting at the 0-based start
SpanCanonical(replacementLines, start, len) ==
  stripAllWhitespace(Concat(SubSeq(replacementLines, start + 1, start + len)))

\* the spans the double loop of restoreOldWrappedLines counts as candidates
WrapCandidates(originalLines, replacementLines) ==
  {c \in (0..(Len(replacementLines) - 1)) \X (2..WrapMaxSpan) :
     /\ c[1] + c[2] <= Len(replacementLines)
     /\ \A i \in (c[1] + 1)..(c[1] + c[2]) : Len(Trim(replacementLines[i])) # 0
     /\ LET canonical == SpanCanonical(replacementLines, c[1], c[2])
        IN  /\ Cardinality({i \in 1..Len(originalLines) :
                              stripAllWhitespace(originalLines[i]) = canonical}) = 1
            /\ Len(canonical) >= WrapMinCanonical}

RECURSIVE SpliceCandidates(_, _, _, _)
\* uniqueCandidates sorted by descending start (stable: ascending len among
\* equal starts), spliced one after the other into correctedLines
SpliceCandidates(correctedLines, todo, originalLines, replacementLines) ==
  IF todo = {} THEN correctedLines
  ELSE LET c == CHOOSE x \in todo : \A y \in todo :
                  \/ x[1] > y[1]
                  \/ (x[1] = y[1] /\ x[2] <= y[2])
           canonical == SpanCanonical(replacementLines, c[1], c[2])
           original == originalLines[CHOOSE i \in 1..Len(originalLines) :
                          stripAllWhitespace(originalLines[i]) = canonical]
       IN  SpliceCandidates(Splice(correctedLines, c[1], c[2], <<original>>),
                            todo \ {c}, originalLines, replacementLines)

\* mutant: a span is restored also when another span yields its form
restoreOldWrappedLines_ignoresAmbiguity(originalLines, replacementLines) ==
  IF Len(originalLines) = 0 \/ Len(replacementLines) < 2 THEN replacementLines
  ELSE
    LET cands == WrapCandidates(originalLines, replacementLines)
    IN  IF cands = {} THEN replacementLines
        ELSE SpliceCandidates(replacementLines, cands, originalLines, replacementLines)

restoreOldWrappedLines(originalLines, replacementLines) ==
  IF Len(originalLines) = 0 \/ Len(replacementLines) < 2 THEN replacementLines
  ELSE
    LET cands == WrapCandidates(originalLines, replacementLines)
        uniqueCandidates ==
          {c \in cands :
             Cardinality({d \in cands :
               SpanCanonical(replacementLines, d[1], d[2]) =
               SpanCanonical(replacementLines, c[1], c[2])}) = 1}
    IN  IF uniqueCandidates = {} THEN replacementLines
        ELSE SpliceCandidates(replacementLines, uniqueCandidates,
                              originalLines, replacementLines)

restoreIndentForPairedReplacement(originalLines, replacementLines) ==
  IF Len(originalLines) # Len(replacementLines) THEN replacementLines
  ELSE [i \in 1..Len(replacementLines) |->
          LET line == replacementLines[i]
              indent == leadingWhitespace(originalLines[i])
          IN  IF Len(line) = 0 \/ Len(leadingWhitespace(line)) > 0 THEN line
              ELSE IF Len(indent) = 0 \/ Trim(originalLines[i]) = Trim(line) THEN line
              ELSE indent \o line]

autocorrectReplacementLines(originalLines, replacementLines) ==
  restoreIndentForPairedReplacement(originalLines,
    restoreOldWrappedLines(originalLines,
      maybeExpandSingleLineMerge(originalLines, replacementLines)))

(***************************************************************************)
(* Line references and hashes                                              *)
(***************************************************************************)

\* the number of two-character codes over the 16-symbol alphabet
HashCodes == 256

CharOrder == <<" ", "\t", "\n", ";", "a", "b", "c", "x", "y", "z">>

CharCode(c) == CHOOSE i \in 1..Len(CharOrder) : CharOrder[i] = c

RECURSIVE HashFold(_, _)
HashFold(text, acc) ==
  IF text = <<>> THEN acc
  ELSE HashFold(Tail(text), (acc * 31 + CharCode(Head(text))) % HashCodes)

\* a deterministic code of (line number, line text); distinct pairs may collide
computeLineHash(lineNumber, text) == HashFold(text, lineNumber % HashCodes)

\* a line reference as the caller writes it: present = FALSE is an omitted
\* pos or end, wellFormed = FALSE a string that is neither N nor N#HH,
\* hash = -1 the form N without a hash
NoRef == [present |-> FALSE, wellFormed |-> TRUE, line |-> 0, hash |-> -1]

Ref(line, hash) == [present |-> TRUE, wellFormed |-> TRUE, line |-> line, hash |-> hash]

MalformedRef == [present |-> TRUE, wellFormed |-> FALSE, line |-> 0, hash |-> -1]

NoError == "none"

\* parseLineRef(ref): the parsed { line, hash } or the parse failure
parseLineRef(ref) ==
  IF ref.wellFormed THEN [err |-> NoError, line |-> ref.line, hash |-> ref.hash]
  ELSE [err |-> "InvalidLineRefFormat", line |-> 0, hash |-> -1]

\* validateLineRef(lines, ref): the error it throws, or NoError
validateLineRef(ls, ref) ==
  LET p == parseLineRef(ref)
  IN  IF p.err # NoError THEN p.err
      ELSE IF p.line < 1 \/ p.line > Len(ls) THEN "LineOutOfRange"
      ELSE IF p.hash # -1 /\ computeLineHash(p.line, ls[p.line]) # p.hash
        THEN "StaleLineReference"
      ELSE NoError

RECURSIVE validateLineRefs(_, _)
\* validateLineRefs(lines, refs): the first violation in the order of refs
validateLineRefs(ls, refs) ==
  IF refs = <<>> THEN NoError
  ELSE LET e == validateLineRef(ls, Head(refs))
       IN  IF e # NoError THEN e ELSE validateLineRefs(ls, Tail(refs))

(***************************************************************************)
(* Text normalization                                                      *)
(***************************************************************************)

\* replacement text as the caller gives it: a string (text) or an array of
\* strings (arr)
StringPayload(text) == [isArray |-> FALSE, text |-> text, arr |-> <<>>]

ArrayPayload(arr) == [isArray |-> TRUE, text |-> <<>>, arr |-> arr]

\* toNewLines(input): a string is split on newline, an array is taken as it is
toNewLines(input) == IF input.isArray THEN input.arr ELSE Split(input.text, "\n")

\* what lines[i] is for an index outside the array
Undefined == <<"undefined">>

\* lines[line - 1]
LineAt(ls, line) == IF line \in 1..Len(ls) THEN ls[line] ELSE Undefined

equalsIgnoringWhitespace(a, b) ==
  /\ a # Undefined
  /\ b # Undefined
  /\ stripAllWhitespace(a) = stripAllWhitespace(b)

\* restoreLeadingIndent(templateLine, line)
restoreLeadingIndent(templateLine, line) ==
  IF Len(line) = 0 \/ Len(leadingWhitespace(line)) > 0 THEN line
  ELSE leadingWhitespace(templateLine) \o line

\* stripInsertAnchorEcho(anchorLine, newLines): a first line that echoes the
\* anchor is dropped
stripInsertAnchorEcho(anchorLine, newLines) ==
  IF Len(newLines) > 0 /\ equalsIgnoringWhitespace(newLines[1], anchorLine)
    THEN Tail(newLines) ELSE newLines

\* stripInsertBeforeEcho(anchorLine, newLines): a last line that echoes the
\* anchor is dropped
stripInsertBeforeEcho(anchorLine, newLines) ==
  IF Len(newLines) > 0 /\ equalsIgnoringWhitespace(newLines[Len(newLines)], anchorLine)
    THEN SubSeq(newLines, 1, Len(newLines) - 1) ELSE newLines

\* stripRangeBoundaryEcho(lines, startLine, endLine, newLines): a first line
\* echoing the line before the range and a last line echoing the line after
\* it are dropped
stripRangeBoundaryEcho(ls, startLine, endLine, newLines) ==
  LET out == IF Len(newLines) > 0
                  /\ equalsIgnoringWhitespace(newLines[1], LineAt(ls, startLine - 1))
               THEN Tail(newLines) ELSE newLines
  IN  IF Len(out) > 0 /\ equalsIgnoringWhitespace(out[Len(out)], LineAt(ls, endLine + 1))
        THEN SubSeq(out, 1, Len(out) - 1) ELSE out

(***************************************************************************)
(* Edit operations: each returns the error it throws (err) or the new line *)
(* sequence (lines); the input sequence is never changed                   *)
(***************************************************************************)

Thrown(e) == [err |-> e, lines |-> <<>>]

Returned(ls) == [err |-> NoError, lines |-> ls]

\* the options object the orchestrator passes to every edit operation
SkipValidation == [skipValidation |-> TRUE]

\* mutant: the skipValidation option is ignored
shouldValidate_ignoresOption(options) == TRUE

shouldValidate(options) == options.skipValidation # TRUE

\* mutant: the arrays are compared by identity, and the candidate always is a
\* new array
arraysEqual_byIdentity(a, b) == FALSE

arraysEqual(a, b) ==
  /\ Len(a) = Len(b)
  /\ \A i \in 1..Len(a) : a[i] = b[i]

\* the first element of a corrected replacement re-indented like templateLine
RestoreFirst(templateLine, corrected) ==
  [i \in 1..Len(corrected) |->
     IF i = 1 THEN restoreLeadingIndent(templateLine, corrected[i]) ELSE corrected[i]]

\* lines[line - 1] ?? ""
LineOrEmpty(ls, line) == IF line \in 1..Len(ls) THEN ls[line] ELSE <<>>

applySetLine(ls, anchor, newText, options) ==
  LET v == IF shouldValidate(options) THEN validateLineRef(ls, anchor) ELSE NoError
      p == parseLineRef(anchor)
      originalLine == LineOrEmpty(ls, p.line)
      corrected == autocorrectReplacementLines(<<originalLine>>, toNewLines(newText))
      replacement == RestoreFirst(originalLine, corrected)
  IN  IF v # NoError THEN Thrown(v)
      ELSE IF p.err # NoError THEN Thrown(p.err)
      ELSE Returned(Splice(ls, p.line - 1, 1, replacement))

applyReplaceLines(ls, startAnchor, endAnchor, newText, options) ==
  LET v1 == IF shouldValidate(options) THEN validateLineRef(ls, startAnchor) ELSE NoError
      v2 == IF shouldValidate(options) THEN validateLineRef(ls, endAnchor) ELSE NoError
      ps == parseLineRef(startAnchor)
      pe == parseLineRef(endAnchor)
      startLine == ps.line
      endLine == pe.line
      originalRange == SubSeq(ls, Max(startLine, 1), Min(endLine, Len(ls)))
      stripped == stripRangeBoundaryEcho(ls, startLine, endLine, toNewLines(newText))
      corrected == autocorrectReplacementLines(originalRange, stripped)
      restored == RestoreFirst(LineOrEmpty(ls, startLine), corrected)
  IN  IF v1 # NoError THEN Thrown(v1)
      ELSE IF v2 # NoError THEN Thrown(v2)
      ELSE IF ps.err # NoError THEN Thrown(ps.err)
      ELSE IF pe.err # NoError THEN Thrown(pe.err)
      ELSE IF startLine > endLine THEN Thrown("InvalidRange")
      ELSE Returned(Splice(ls, startLine - 1, endLine - startLine + 1, restored))

\* mutant: the text is spliced in at line - 1, above the anchor line
applyInsertAfter_aboveAnchor(ls, anchor, text, options) ==
  LET v == IF shouldValidate(options) THEN validateLineRef(ls, anchor) ELSE NoError
      p == parseLineRef(anchor)
      newLines == stripInsertAnchorEcho(LineAt(ls, p.line), toNewLines(text))
  IN  IF v # NoError THEN Thrown(v)
      ELSE IF p.err # NoError THEN Thrown(p.err)
      ELSE IF Len(newLines) = 0 THEN Thrown("EmptyInsertText")
      ELSE Returned(Splice(ls, p.line - 1, 0, newLines))

applyInsertAfter(ls, anchor, text, options) ==
  LET v == IF shouldValidate(options) THEN validateLineRef(ls, anchor) ELSE NoError
      p == parseLineRef(anchor)
      newLines == stripInsertAnchorEcho(LineAt(ls, p.line), toNewLines(text))
  IN  IF v # NoError THEN Thrown(v)
      ELSE IF p.err # NoError THEN Thrown(p.err)
      ELSE IF Len(newLines) = 0 THEN Thrown("EmptyInsertText")
      ELSE Returned(Splice(ls, p.line, 0, newLines))

applyInsertBefore(ls, anchor, text, options) ==
  LET v == IF shouldValidate(options) THEN validateLineRef(ls, anchor) ELSE NoError
      p == parseLineRef(anchor)
      newLines == stripInsertBeforeEcho(LineAt(ls, p.line), toNewLines(text))
  IN  IF v # NoError THEN Thrown(v)
      ELSE IF p.err # NoError THEN Thrown(p.err)
      ELSE IF Len(newLines) = 0 THEN Thrown("EmptyInsertText")
      ELSE Returned(Splice(ls, p.line - 1, 0, newLines))

\* the canonical empty file: one empty line
IsEmptyFile(ls) == Len(ls) = 1 /\ ls[1] = <<>>

\* mutant: the empty file is not treated apart
applyAppend_keepsEmptyLine(ls, text) ==
  LET normalized == toNewLines(text)
  IN  IF Len(normalized) = 0 THEN Thrown("EmptyInsertText")
      ELSE Returned(ls \o normalized)

applyAppend(ls, text) ==
  LET normalized == toNewLines(text)
  IN  IF Len(normalized) = 0 THEN Thrown("EmptyInsertText")
      ELSE IF IsEmptyFile(ls) THEN Returned(normalized)
      ELSE Returned(ls \o normalized)

applyPrepend(ls, text) ==
  LET normalized == toNewLines(text)
  IN  IF Len(normalized) = 0 THEN Thrown("EmptyInsertText")
      ELSE IF IsEmptyFile(ls) THEN Returned(normalized)
      ELSE Returned(normalized \o ls)

(***************************************************************************)
(* Batch preprocessing                                                     *)
(***************************************************************************)

\* Number.NEGATIVE_INFINITY: below every parsed line number
NEGATIVE_INFINITY == -1

\* mutant: a whole-file prepend sorts above every line number
getEditLineNumber_prependFirst(edit) ==
  IF edit.op = "replace"
    THEN parseLineRef(IF edit.end.present THEN edit.end ELSE edit.pos).line
  ELSE IF edit.pos.present THEN parseLineRef(edit.pos).line
  ELSE IF edit.op = "prepend" THEN 1000
  ELSE NEGATIVE_INFINITY

\* getEditLineNumber(edit); the parse failure it throws is SortThrows
getEditLineNumber(edit) ==
  IF edit.op = "replace"
    THEN parseLineRef(IF edit.end.present THEN edit.end ELSE edit.pos).line
  ELSE IF edit.pos.present THEN parseLineRef(edit.pos).line
  ELSE NEGATIVE_INFINITY

\* the reference getEditLineNumber parses
SortRef(edit) ==
  IF edit.op = "replace" THEN (IF edit.end.present THEN edit.end ELSE edit.pos)
  ELSE edit.pos

\* mutant: the end of a ranged replace is not collected
collectLineRefsOf_posOnly(edit) ==
  IF edit.op = "replace" THEN <<edit.pos>>
  ELSE IF edit.pos.present THEN <<edit.pos>> ELSE <<>>

collectLineRefsOf(edit) ==
  IF edit.op = "replace"
    THEN (IF edit.end.present THEN <<edit.pos, edit.end>> ELSE <<edit.pos>>)
  ELSE IF edit.pos.present THEN <<edit.pos>> ELSE <<>>

RECURSIVE collectLineRefs(_)
collectLineRefs(es) ==
  IF es = <<>> THEN <<>> ELSE collectLineRefsOf(Head(es)) \o collectLineRefs(Tail(es))

normalizeEditPayload(payload) == Join(toNewLines(payload), "\n")

buildDedupeKey(edit) ==
  IF edit.op = "replace"
    THEN <<edit.op, edit.pos, edit.end, normalizeEditPayload(edit.lines)>>
  ELSE <<edit.op, edit.pos, NoRef, normalizeEditPayload(edit.lines)>>

\* mutant: the last edit of every key is kept instead of the first
dedupeEdits_keepLast(es) ==
  LET keep == {i \in 1..Len(es) :
                 \A j \in (i + 1)..Len(es) : buildDedupeKey(es[j]) # buildDedupeKey(es[i])}
      F[i \in 0..Len(es)] ==
        IF i = 0 THEN <<>>
        ELSE IF i \in keep THEN Append(F[i - 1], es[i]) ELSE F[i - 1]
  IN  [edits |-> F[Len(es)], deduplicatedEdits |-> Len(es) - Cardinality(keep)]

\* mutant: the duplicates are dropped without being counted
dedupeEdits_uncounted(es) ==
  LET keep == {i \in 1..Len(es) :
                 \A j \in 1..(i - 1) : buildDedupeKey(es[j]) # buildDedupeKey(es[i])}
      F[i \in 0..Len(es)] ==
        IF i = 0 THEN <<>>
        ELSE IF i \in keep THEN Append(F[i - 1], es[i]) ELSE F[i - 1]
  IN  [edits |-> F[Len(es)], deduplicatedEdits |-> 0]

\* dedupeEdits(edits): the edits whose key no earlier edit has, in batch order
dedupeEdits(es) ==
  LET keep == {i \in 1..Len(es) :
                 \A j \in 1..(i - 1) : buildDedupeKey(es[j]) # buildDedupeKey(es[i])}
      F[i \in 0..Len(es)] ==
        IF i = 0 THEN <<>>
        ELSE IF i \in keep THEN Append(F[i - 1], es[i]) ELSE F[i - 1]
  IN  [edits |-> F[Len(es)], deduplicatedEdits |-> Len(es) - Cardinality(keep)]

EDIT_PRECEDENCE(op) ==
  CASE op = "replace" -> 0
    [] op = "append" -> 1
    [] op = "prepend" -> 2
    [] OTHER -> 3

\* mutant: ascending line numbers (lineA - lineB)
CompareEdits_ascending(a, b) ==
  LET lineA == getEditLineNumber(a)
      lineB == getEditLineNumber(b)
  IN  IF lineB # lineA THEN lineA - lineB
      ELSE EDIT_PRECEDENCE(a.op) - EDIT_PRECEDENCE(b.op)

\* the comparator of the sort of applyHashlineEditsWithReport
CompareEdits(a, b) ==
  LET lineA == getEditLineNumber(a)
      lineB == getEditLineNumber(b)
  IN  IF lineB # lineA THEN lineB - lineA
      ELSE EDIT_PRECEDENCE(a.op) - EDIT_PRECEDENCE(b.op)

RECURSIVE InsertEdit_unstable(_, _)
\* mutant: an edit is inserted before the edits it compares equal to, so
\* ties come out in reverse batch order
InsertEdit_unstable(sorted, e) ==
  IF sorted = <<>> THEN <<e>>
  ELSE IF CompareEdits(e, Head(sorted)) <= 0 THEN <<e>> \o sorted
  ELSE <<Head(sorted)>> \o InsertEdit_unstable(Tail(sorted), e)

RECURSIVE InsertEdit(_, _)
InsertEdit(sorted, e) ==
  IF sorted = <<>> THEN <<e>>
  ELSE IF CompareEdits(e, Head(sorted)) < 0 THEN <<e>> \o sorted
  ELSE <<Head(sorted)>> \o InsertEdit(Tail(sorted), e)

RECURSIVE SortEdits(_)
\* [...edits].sort(comparator): Array.prototype.sort is stable
SortEdits(es) ==
  IF es = <<>> THEN <<>>
  ELSE InsertEdit(SortEdits(SubSeq(es, 1, Len(es) - 1)), es[Len(es)])

\* the comparator runs, and parses, only when there are two edits to compare
SortThrows(es) ==
  /\ Len(es) >= 2
  /\ \E i \in 1..Len(es) : parseLineRef(SortRef(es[i])).err # NoError

\* the ranges of detectOverlappingRanges, in the order of edits
RangesOf(es) ==
  LET F[i \in 0..Len(es)] ==
        IF i = 0 THEN <<>>
        ELSE IF es[i].op = "replace" /\ es[i].end.present
          THEN Append(F[i - 1], [start |-> parseLineRef(es[i].pos).line,
                                 end |-> parseLineRef(es[i].end).line,
                                 idx |-> i - 1])
        ELSE F[i - 1]
  IN  F[Len(es)]

RECURSIVE InsertRange(_, _)
InsertRange(sorted, r) ==
  IF sorted = <<>> THEN <<r>>
  ELSE IF r.start < Head(sorted).start
          \/ (r.start = Head(sorted).start /\ r.end < Head(sorted).end)
    THEN <<r>> \o sorted
  ELSE <<Head(sorted)>> \o InsertRange(Tail(sorted), r)

RECURSIVE SortRanges(_)
\* ranges.sort((a, b) => a.start - b.start || a.end - b.end)
SortRanges(rs) ==
  IF rs = <<>> THEN <<>>
  ELSE InsertRange(SortRanges(SubSeq(rs, 1, Len(rs) - 1)), rs[Len(rs)])

\* a range as the message prints it: (lines start-end)
Span(r) == [start |-> r.start, end |-> r.end]

NoOverlap ==
  [found |-> FALSE, prev |-> 0, prevSpan |-> [start |-> 0, end |-> 0],
   curr |-> 0, currSpan |-> [start |-> 0, end |-> 0]]

\* mutant: curr.start < prev.end, so ranges sharing one line pass
detectOverlappingRanges_strict(es) ==
  LET ranges == SortRanges(RangesOf(es))
      hits == {i \in 2..Len(ranges) : ranges[i].start < ranges[i - 1].end}
  IN  IF Len(ranges) < 2 \/ hits = {} THEN NoOverlap
      ELSE LET i == CHOOSE k \in hits : \A j \in hits : k <= j
           IN  [found |-> TRUE,
                prev |-> ranges[i - 1].idx + 1, prevSpan |-> Span(ranges[i - 1]),
                curr |-> ranges[i].idx + 1, currSpan |-> Span(ranges[i])]

\* detectOverlappingRanges(edits): the first adjacent pair of the sorted
\* ranges with curr.start <= prev.end, by the edit numbers and the line
\* spans the message names
detectOverlappingRanges(es) ==
  LET ranges == SortRanges(RangesOf(es))
      hits == {i \in 2..Len(ranges) : ranges[i].start <= ranges[i - 1].end}
  IN  IF Len(ranges) < 2 \/ hits = {} THEN NoOverlap
      ELSE LET i == CHOOSE k \in hits : \A j \in hits : k <= j
           IN  [found |-> TRUE,
                prev |-> ranges[i - 1].idx + 1, prevSpan |-> Span(ranges[i - 1]),
                curr |-> ranges[i].idx + 1, currSpan |-> Span(ranges[i])]

(***************************************************************************)
(* The orchestrator applyHashlineEditsWithReport                           *)
(***************************************************************************)

\* content.length === 0 ? [] : content.split("\n")
ContentLines(c) == IF Len(c) = 0 THEN <<>> ELSE Split(c, "\n")

\* the candidate line sequence of one iteration of the loop over sortedEdits
ApplyEdit(ls, edit) ==
  CASE edit.op = "replace" ->
         IF edit.end.present
           THEN applyReplaceLines(ls, edit.pos, edit.end, edit.lines, SkipValidation)
           ELSE applySetLine(ls, edit.pos, edit.lines, SkipValidation)
    [] edit.op = "append" ->
         IF edit.pos.present
           THEN applyInsertAfter(ls, edit.pos, edit.lines, SkipValidation)
           ELSE applyAppend(ls, edit.lines)
    [] edit.op = "prepend" ->
         IF edit.pos.present
           THEN applyInsertBefore(ls, edit.pos, edit.lines, SkipValidation)
           ELSE applyPrepend(ls, edit.lines)

(***************************************************************************)
(* The read enhancer hook (hooks/hashline-read-enhancer/hook.ts)           *)
(***************************************************************************)

Digits == <<"0", "1", "2", "3", "4", "5", "6", "7", "8", "9">>

\* /\d/
IsDigit(c) == \E i \in 1..Len(Digits) : Digits[i] = c

DigitValue(c) == (CHOOSE i \in 1..Len(Digits) : Digits[i] = c) - 1

RECURSIVE parseInt(_, _)
\* Number.parseInt(ds, 10) of a run of digits, acc the value read so far
parseInt(ds, acc) ==
  IF ds = <<>> THEN acc
  ELSE parseInt(Tail(ds), acc * 10 + DigitValue(Head(ds)))

RECURSIVE NumberText(_)
\* `${n}` of a non-negative integer
NumberText(n) ==
  IF n < 10 THEN <<Digits[n + 1]>>
  ELSE Append(NumberText(n \div 10), Digits[(n % 10) + 1])

\* text.startsWith(prefix)
StartsWith(text, prefix) ==
  /\ Len(text) >= Len(prefix)
  /\ SubSeq(text, 1, Len(prefix)) = prefix

WRITE_SUCCESS_MARKER ==
  <<"F", "i", "l", "e", " ", "w", "r", "i", "t", "t", "e", "n", " ",
    "s", "u", "c", "c", "e", "s", "s", "f", "u", "l", "l", "y", ".">>

CONTENT_OPEN_TAG == <<"<", "c", "o", "n", "t", "e", "n", "t", ">">>

CONTENT_CLOSE_TAG == <<"<", "/", "c", "o", "n", "t", "e", "n", "t", ">">>

FILE_OPEN_TAG == <<"<", "f", "i", "l", "e", ">">>

FILE_CLOSE_TAG == <<"<", "/", "f", "i", "l", "e", ">">>

OPENCODE_LINE_TRUNCATION_SUFFIX ==
  <<".", ".", ".", " ", "(", "l", "i", "n", "e", " ", "t", "r", "u", "n",
    "c", "a", "t", "e", "d", " ", "t", "o", " ", "2", "0", "0", "0", " ",
    "c", "h", "a", "r", "s", ")">>

\* the two-character rendering of a hash code over the alphabet of the
\* LINE#ID format
HashAlphabet ==
  <<"Z", "P", "M", "Q", "V", "R", "W", "S", "N", "K", "T", "X", "J", "B", "Y", "H">>

HashText(h) == <<HashAlphabet[(h \div 16) + 1], HashAlphabet[(h % 16) + 1]>>

NoMatch == [ok |-> FALSE, lineNumber |-> 0, content |-> <<>>]

\* the number of digits at the head of text
RECURSIVE DigitRun(_)
DigitRun(text) ==
  IF text # <<>> /\ IsDigit(Head(text)) THEN 1 + DigitRun(Tail(text)) ELSE 0

\* COLON_READ_LINE_PATTERN /^\s*(\d+): ?(.*)$/, then PIPE_READ_LINE_PATTERN
\* /^\s*(\d+)\| ?(.*)$/: blanks, a run of digits, the separator, one
\* optional space, the content
parseReadLine(line) ==
  LET afterWs == SubSeq(line, LeadingWsLen(line) + 1, Len(line))
      k == DigitRun(afterWs)
      rest == SubSeq(afterWs, k + 2, Len(afterWs))
  IN  IF k = 0 \/ Len(afterWs) = k THEN NoMatch
      ELSE IF afterWs[k + 1] \notin {":", "|"} THEN NoMatch
      ELSE [ok |-> TRUE,
            lineNumber |-> parseInt(SubSeq(afterWs, 1, k), 0),
            content |-> IF rest # <<>> /\ Head(rest) = " " THEN Tail(rest) ELSE rest]

\* the pattern is tested on the first line of the text
isTextFile(text) == parseReadLine(Split(text, "\n")[1]).ok

transformLine(line) ==
  LET parsed == parseReadLine(line)
  IN  IF ~parsed.ok THEN line
      ELSE IF EndsWith(parsed.content, OPENCODE_LINE_TRUNCATION_SUFFIX) THEN line
      ELSE NumberText(parsed.lineNumber) \o <<"#">>
             \o HashText(computeLineHash(parsed.lineNumber, parsed.content))
             \o <<"|">> \o parsed.content

\* lines.findIndex(l => l.startsWith(tag)) and lines.indexOf(tag), 0-based,
\* -1 when there is none
FindStartsWith(ls, tag) ==
  LET hits == {i \in 1..Len(ls) : StartsWith(ls[i], tag)}
  IN  IF hits = {} THEN -1 ELSE (CHOOSE i \in hits : \A j \in hits : i <= j) - 1

IndexOfLine(ls, tag) ==
  LET hits == {i \in 1..Len(ls) : ls[i] = tag}
  IN  IF hits = {} THEN -1 ELSE (CHOOSE i \in hits : \A j \in hits : i <= j) - 1

NoBlock == [found |-> FALSE, prefix |-> <<>>, contentLines |-> <<>>, suffix |-> <<>>]

extractContentBlock(out) ==
  LET ls == Split(out, "\n")
      contentStart == FindStartsWith(ls, CONTENT_OPEN_TAG)
      contentEnd == IndexOfLine(ls, CONTENT_CLOSE_TAG)
      fileStart == FindStartsWith(ls, FILE_OPEN_TAG)
      fileEnd == IndexOfLine(ls, FILE_CLOSE_TAG)
      blockStart == IF contentStart # -1 THEN contentStart ELSE fileStart
      blockEnd == IF contentStart # -1 THEN contentEnd ELSE fileEnd
      openTag == IF contentStart # -1 THEN CONTENT_OPEN_TAG ELSE FILE_OPEN_TAG
  IN  IF blockStart = -1 \/ blockEnd = -1 \/ blockEnd <= blockStart THEN NoBlock
      ELSE LET openLine == ls[blockStart + 1]
               inline == openLine # openTag
               inlineFirst == SubSeq(openLine, Len(openTag) + 1, Len(openLine))
           IN  [found |-> TRUE,
                prefix |-> IF inline
                             THEN Append(Slice(ls, 0, blockStart), openTag)
                             ELSE Slice(ls, 0, blockStart + 1),
                contentLines |-> IF inline
                                   THEN <<inlineFirst>> \o Slice(ls, blockStart + 1, blockEnd)
                                   ELSE Slice(ls, blockStart + 1, blockEnd),
                suffix |-> Slice(ls, blockEnd, Len(ls))]

\* mutant: every numbered line is transformed, also after a line that is
\* not numbered
TransformNumbered_all(ls) == [k \in 1..Len(ls) |-> transformLine(ls[k])]

RECURSIVE TransformNumbered(_)
\* the loop of transformOutput: lines are transformed up to the first one
\* that is not a numbered line, the rest is copied
TransformNumbered(ls) ==
  IF ls = <<>> THEN <<>>
  ELSE IF ~parseReadLine(Head(ls)).ok THEN ls
  ELSE <<transformLine(Head(ls))>> \o TransformNumbered(Tail(ls))

transformOutput(out) ==
  IF out = <<>> THEN out
  ELSE LET Plain(ls) ==
             IF ~isTextFile(ls[1]) THEN out
             ELSE Join(TransformNumbered(ls), "\n")
           InBlock(block) ==
             IF ~isTextFile(IF block.contentLines = <<>> THEN <<>>
                            ELSE block.contentLines[1])
               THEN out
               ELSE Join(block.prefix \o TransformNumbered(block.contentLines)
                           \o block.suffix, "\n")
           Dispatch(block) ==
             IF block.found THEN InBlock(block) ELSE Plain(Split(out, "\n"))
       IN  Dispatch(extractContentBlock(out))

Upper ==
  <<"A", "B", "C", "D", "E", "F", "G", "H", "I", "J", "K", "L", "M",
      "N", "O", "P", "Q", "R", "S", "T", "U", "V", "W", "X", "Y", "Z">>

Lower ==
  <<"a", "b", "c", "d", "e", "f", "g", "h", "i", "j", "k", "l", "m",
      "n", "o", "p", "q", "r", "s", "t", "u", "v", "w", "x", "y", "z">>

ToLowerChar(c) ==
  IF \E i \in 1..Len(Upper) : Upper[i] = c
    THEN Lower[CHOOSE i \in 1..Len(Upper) : Upper[i] = c]
    ELSE c

\* text.toLowerCase()
toLowerCase(text) == [i \in 1..Len(text) |-> ToLowerChar(text[i])]

\* text.includes(needle)
Includes(text, needle) ==
  \E i \in 0..(Len(text) - Len(needle)) : SubSeq(text, i + 1, i + Len(needle)) = needle

isReadTool(toolName) == toLowerCase(toolName) = <<"r", "e", "a", "d">>

isWriteTool(toolName) == toLowerCase(toolName) = <<"w", "r", "i", "t", "e">>

\* a JavaScript value that is a string, and one that is not
Str(s) == [isString |-> TRUE, text |-> s]

NotStr == [isString |-> FALSE, text |-> <<>>]

\* metadata that is not an object, and a metadata object by its four
\* candidate properties
NoMetadata == [isObject |-> FALSE, filepath |-> NotStr, filePath |-> NotStr,
               path |-> NotStr, file |-> NotStr]

Metadata(filepath, filePath, path, file) ==
  [isObject |-> TRUE, filepath |-> filepath, filePath |-> filePath,
   path |-> path, file |-> file]

NoPath == [defined |-> FALSE, path |-> <<>>]

\* the first candidate that is a non-empty string
extractFilePath(meta) ==
  IF ~meta.isObject THEN NoPath
  ELSE LET candidates == <<meta.filepath, meta.filePath, meta.path, meta.file>>
           usable == {i \in 1..4 : candidates[i].isString /\ Len(candidates[i].text) > 0}
       IN  IF usable = {} THEN NoPath
           ELSE [defined |-> TRUE,
                 path |-> candidates[CHOOSE i \in usable : \A j \in usable : i <= j].text]

\* a file of the file system: missing, or present with its text
Missing == [exists |-> FALSE, text |-> <<>>]

Present(text) == [exists |-> TRUE, text |-> text]

FileAt(fs, p) == IF p \in DOMAIN fs THEN fs[p] ELSE Missing

\* mutant: the failure test is skipped
appendWriteHashlineOutput_overError(out, meta, fs) ==
  LET filePath == extractFilePath(meta)
  IN  IF StartsWith(out, WRITE_SUCCESS_MARKER) THEN out
      ELSE IF ~filePath.defined THEN out
      ELSE IF ~FileAt(fs, filePath.path).exists THEN out
      ELSE LET fileText == FileAt(fs, filePath.path).text
               lineCount == IF fileText = <<>> THEN 0 ELSE Len(Split(fileText, "\n"))
           IN  WRITE_SUCCESS_MARKER \o <<" ">> \o NumberText(lineCount)
                 \o <<" ", "l", "i", "n", "e", "s", " ", "w", "r", "i", "t", "t", "e",
                       "n", ".">>

\* the output.output that appendWriteHashlineOutput leaves
appendWriteHashlineOutput(out, meta, fs) ==
  LET outputLower == toLowerCase(out)
      filePath == extractFilePath(meta)
  IN  IF StartsWith(out, WRITE_SUCCESS_MARKER) THEN out
      ELSE IF StartsWith(outputLower, <<"e", "r", "r", "o", "r">>)
              \/ Includes(outputLower, <<"f", "a", "i", "l", "e", "d">>) THEN out
      ELSE IF ~filePath.defined THEN out
      ELSE IF ~FileAt(fs, filePath.path).exists THEN out
      ELSE LET fileText == FileAt(fs, filePath.path).text
               lineCount == IF fileText = <<>> THEN 0 ELSE Len(Split(fileText, "\n"))
           IN  WRITE_SUCCESS_MARKER \o <<" ">> \o NumberText(lineCount)
                 \o <<" ", "l", "i", "n", "e", "s", " ", "w", "r", "i", "t", "t", "e",
                       "n", ".">>

\* the operations of the object createHashlineReadEnhancerHook returns
HookOperations == {"tool.execute.after"}

(***************************************************************************)
(* Inputs                                                                  *)
(***************************************************************************)

\* the largest number of edits in a submitted batch
MaxEdits == 2

Contents ==
  { <<>>,
    <<"a", "\n", "b", "\n", "c">>,
    <<"a", "\n">>,
    <<" ", " ", "a", "\n", " ", " ", "b">> }

Edit(op, pos, end, payload) == [op |-> op, pos |-> pos, end |-> end, lines |-> payload]

\* references to line i of ls: with its current hash, with another hash,
\* without a hash
GoodRef(ls, i) == Ref(i, computeLineHash(i, ls[i]))

StaleRef(ls, i) == Ref(i, (computeLineHash(i, ls[i]) + 1) % HashCodes)

BareRef(i) == Ref(i, -1)

PX == StringPayload(<<"x">>)

PXArr == ArrayPayload(<< <<"x">> >>)

PXY == StringPayload(<<"x", "\n", "y">>)

PNone == ArrayPayload(<<>>)

PMerged == StringPayload(<<"a", ";", " ", "b">>)

PBlank == StringPayload(<<>>)

POwn(ls, i) == StringPayload(ls[i])

\* the edits a caller may submit against content c
EditUniverse(c) ==
  LET ls == ContentLines(c)
      n == Len(ls)
      L == 1..n
  IN  \* single-line replaces: by new text, by the line's own text, by
      \* nothing, by two lines
      {Edit("replace", GoodRef(ls, i), NoRef, PX) : i \in L}
      \cup {Edit("replace", GoodRef(ls, i), NoRef, POwn(ls, i)) : i \in L}
      \cup {Edit("replace", GoodRef(ls, i), NoRef, p) :
              i \in L \cap {2}, p \in {PXArr, PNone, PXY}}
      \* ranged replaces, one of them with start > end
      \cup {Edit("replace", GoodRef(ls, q[1]), GoodRef(ls, q[2]), PX) :
              q \in {r \in L \X L : r \in {<<1, 2>>, <<1, 3>>, <<2, 3>>, <<3, 3>>, <<2, 1>>}}}
      \cup {Edit("replace", GoodRef(ls, i), GoodRef(ls, j), p) :
              i \in L \cap {1}, j \in L \cap {2}, p \in {PXY, PMerged}}
      \cup {Edit("replace", GoodRef(ls, i), GoodRef(ls, n), PBlank) : i \in L \cap {1}}
      \* anchored insertions
      \cup {Edit(op, GoodRef(ls, i), NoRef, PX) : op \in {"append", "prepend"}, i \in L}
      \cup {Edit(op, GoodRef(ls, i), NoRef, PNone) :
              op \in {"append", "prepend"}, i \in L \cap {2}}
      \cup {Edit("append", GoodRef(ls, i), NoRef, POwn(ls, i)) : i \in L \cap {2}}
      \* whole-file insertions
      \cup {Edit("append", NoRef, NoRef, p) : p \in {PX, PXY, PNone}}
      \cup {Edit("prepend", NoRef, NoRef, PX)}
      \* references that are stale, without hash, out of range, malformed
      \cup {Edit("replace", r, NoRef, PX) :
              r \in {StaleRef(ls, i) : i \in L \cap {2}}
                    \cup {BareRef(1), BareRef(n + 1), MalformedRef}}
      \cup {Edit("replace", GoodRef(ls, i), StaleRef(ls, j), PX) :
              i \in L \cap {1}, j \in L \cap {2}}
      \cup {Edit("append", StaleRef(ls, i), NoRef, PX) : i \in L \cap {1}}

RECURSIVE SeqsUpTo(_, _)
\* the sequences over S of length at most n
SeqsUpTo(S, n) ==
  IF n = 0 THEN {<<>>}
  ELSE LET shorter == SeqsUpTo(S, n - 1)
       IN  shorter \cup {Append(q, e) : q \in {r \in shorter : Len(r) = n - 1}, e \in S}

(***************************************************************************)
(* applyHashlineEditsWithReport as a function of (content, edits): the     *)
(* report it returns, or the error it throws                               *)
(***************************************************************************)

Failure(e) == [err |-> e, content |-> <<>>, noopEdits |-> 0, deduplicatedEdits |-> 0]

Report(c, noop, dedup) ==
  [err |-> NoError, content |-> c, noopEdits |-> noop, deduplicatedEdits |-> dedup]

RECURSIVE ApplyLoop(_, _, _, _)
\* the loop of lines 173-209 over the edits es still to apply
ApplyLoop(ls, es, noop, dedup) ==
  IF es = <<>> THEN Report(Join(ls, "\n"), noop, dedup)
  ELSE LET Candidate(next) ==
             IF next.err # NoError THEN Failure(next.err)
             ELSE IF arraysEqual(next.lines, ls)
               THEN ApplyLoop(ls, Tail(es), noop + 1, dedup)
             ELSE ApplyLoop(next.lines, Tail(es), noop, dedup)
       IN  Candidate(ApplyEdit(ls, Head(es)))

applyHashlineEditsWithReport(c, es) ==
  LET Sorted(sorted, dedup) ==
        LET Validated(e) ==
              IF e # NoError THEN Failure(e)
              ELSE IF detectOverlappingRanges(sorted).found
                THEN Failure("OverlappingRangeEdits")
              ELSE ApplyLoop(ContentLines(c), sorted, 0, dedup)
        IN  Validated(validateLineRefs(ContentLines(c), collectLineRefs(sorted)))
      Deduped(dedupeResult) ==
        IF SortThrows(dedupeResult.edits) THEN Failure("InvalidLineRefFormat")
        ELSE Sorted(SortEdits(dedupeResult.edits), dedupeResult.deduplicatedEdits)
  IN  IF Len(es) = 0 THEN Report(c, 0, 0)
      ELSE Deduped(dedupeEdits(es))

\* what the state machine has returned or thrown once it has ended
Outcome ==
  IF pc = "failed" THEN Failure(error)
  ELSE Report(outContent, noopEdits, deduplicatedEdits)

Ended == pc \in {"done", "failed"}

InputLines == ContentLines(content)

\* no call of autocorrectReplacementLines is under way
AutocorrectIdle ==
  /\ acOriginalLines = <<>>
  /\ acReplacementLines = <<>>
  /\ afterExpand = <<>>
  /\ afterRestore = <<>>
  /\ afterIndent = <<>>
  /\ autocorrectPc = "idle"

\* no call of countLineDiffs is under way
DiffIdle ==
  /\ diffOldContent = <<>>
  /\ diffNewContent = <<>>
  /\ additions = 0
  /\ deletions = 0
  /\ diffPc = "idle"

\* no call of the hook is under way
HookIdle ==
  /\ operation = "none"
  /\ tool = <<>>
  /\ toolOutput = Str(<<>>)
  /\ output = Str(<<>>)
  /\ metadata = NoMetadata
  /\ files = <<>>
  /\ messages = <<>>
  /\ hookPc = "idle"

(***************************************************************************)
(* The state machine                                                       *)
(***************************************************************************)

Init ==
  /\ content \in Contents
  /\ edits \in SeqsUpTo(EditUniverse(content), MaxEdits)
  /\ pc = "start"
  /\ sortedEdits = <<>>
  /\ deduplicatedEdits = 0
  /\ lines = <<>>
  /\ idx = 0
  /\ noopEdits = 0
  /\ error = NoError
  /\ outContent = <<>>
  /\ HookIdle
  /\ AutocorrectIdle
  /\ DiffIdle

\* mutant: the empty batch returns the content without its trailing
\* whitespace
EmptyBatch_trimmed ==
  /\ pc = "start"
  /\ Len(edits) = 0
  /\ pc' = "done"
  /\ outContent' = TrimEnd(content)
  /\ UNCHANGED <<content, edits, sortedEdits, deduplicatedEdits, lines, idx,
                 noopEdits, error>>
  /\ UNCHANGED <<hookVars, autocorrectVars, diffVars>>

\* lines 146-152: an empty batch returns the content as it is
EmptyBatch ==
  /\ pc = "start"
  /\ Len(edits) = 0
  /\ pc' = "done"
  /\ outContent' = content
  /\ UNCHANGED <<content, edits, sortedEdits, deduplicatedEdits, lines, idx,
                 noopEdits, error>>
  /\ UNCHANGED <<hookVars, autocorrectVars, diffVars>>

\* lines 154-161: dedupe, then sort; the comparator throws on a reference
\* that does not parse
Prepare ==
  /\ pc = "start"
  /\ Len(edits) > 0
  /\ LET dedupeResult == dedupeEdits(edits)
     IN  /\ deduplicatedEdits' = dedupeResult.deduplicatedEdits
         /\ IF SortThrows(dedupeResult.edits)
              THEN /\ pc' = "failed"
                   /\ error' = "InvalidLineRefFormat"
                   /\ UNCHANGED sortedEdits
              ELSE /\ pc' = "validate"
                   /\ sortedEdits' = SortEdits(dedupeResult.edits)
                   /\ UNCHANGED error
  /\ UNCHANGED <<content, edits, lines, idx, noopEdits, outContent>>
  /\ UNCHANGED <<hookVars, autocorrectVars, diffVars>>

\* lines 163-168: split the content, validate every reference against it
Validate ==
  /\ pc = "validate"
  /\ lines' = ContentLines(content)
  /\ noopEdits' = 0
  /\ LET e == validateLineRefs(ContentLines(content), collectLineRefs(sortedEdits))
     IN  IF e # NoError
           THEN pc' = "failed" /\ error' = e
           ELSE pc' = "overlap" /\ UNCHANGED error
  /\ UNCHANGED <<content, edits, sortedEdits, deduplicatedEdits, idx, outContent>>
  /\ UNCHANGED <<hookVars, autocorrectVars, diffVars>>

\* lines 170-171
DetectOverlap ==
  /\ pc = "overlap"
  /\ IF detectOverlappingRanges(sortedEdits).found
       THEN pc' = "failed" /\ error' = "OverlappingRangeEdits" /\ UNCHANGED idx
       ELSE pc' = "apply" /\ idx' = 1 /\ UNCHANGED error
  /\ UNCHANGED <<content, edits, sortedEdits, deduplicatedEdits, lines,
                 noopEdits, outContent>>
  /\ UNCHANGED <<hookVars, autocorrectVars, diffVars>>

\* lines 173-209: one iteration of the loop
ApplyNext ==
  /\ pc = "apply"
  /\ idx <= Len(sortedEdits)
  /\ LET next == ApplyEdit(lines, sortedEdits[idx])
     IN  IF next.err # NoError
           THEN /\ pc' = "failed"
                /\ error' = next.err
                /\ UNCHANGED <<lines, noopEdits, idx>>
           ELSE /\ IF arraysEqual(next.lines, lines)
                     THEN noopEdits' = noopEdits + 1 /\ UNCHANGED lines
                     ELSE lines' = next.lines /\ UNCHANGED noopEdits
                /\ idx' = idx + 1
                /\ UNCHANGED <<pc, error>>
  /\ UNCHANGED <<content, edits, sortedEdits, deduplicatedEdits, outContent>>
  /\ UNCHANGED <<hookVars, autocorrectVars, diffVars>>

\* lines 211-215
Finish ==
  /\ pc = "apply"
  /\ idx > Len(sortedEdits)
  /\ pc' = "done"
  /\ outContent' = Join(lines, "\n")
  /\ UNCHANGED <<content, edits, sortedEdits, deduplicatedEdits, lines, idx,
                 noopEdits, error>>
  /\ UNCHANGED <<hookVars, autocorrectVars, diffVars>>

Next ==
  \/ EmptyBatch
  \/ Prepare
  \/ Validate
  \/ DetectOverlap
  \/ ApplyNext
  \/ Finish

Spec == Init /\ [][Next]_vars

(***************************************************************************)
(* Inputs of the hook                                                      *)
(***************************************************************************)

\* the largest number of lines of a read output
MaxOutputLines == 4

NumberedColon == <<"1", ":", " ", "a">>

NumberedPipe == <<"0", "2", "|", " ", "b">>

Unnumbered == <<"a">>

InlineOpen == CONTENT_OPEN_TAG \o NumberedColon

TruncatedLine == <<"3", ":", " ", "b">> \o OPENCODE_LINE_TRUNCATION_SUFFIX

\* the lines a read output is made of
ReadLines ==
  {CONTENT_OPEN_TAG, CONTENT_CLOSE_TAG, FILE_OPEN_TAG, FILE_CLOSE_TAG,
   NumberedColon, NumberedPipe, Unnumbered, InlineOpen, TruncatedLine}

ReadOutputs ==
  {<<>>} \cup {Join(ls, "\n") : ls \in SeqsUpTo(ReadLines, MaxOutputLines) \ {<<>>}}

WriteOutputs ==
  {<<>>,
   <<"W", "r", "o", "t", "e", " ", "f", "i", "l", "e", " ", "s", "u",
       "c", "c", "e", "s", "s", "f", "u", "l", "l", "y", ".">>,
   <<"E", "r", "r", "o", "r", ":", " ", "a">>,
   <<"w", "r", "i", "t", "e", " ", "F", "A", "I", "L", "E", "D">>,
   WRITE_SUCCESS_MARKER \o <<" ", "9", " ", "l", "i", "n", "e", "s", " ", "w", "r", "i", "t",
                                 "t", "e", "n", ".">>}

ToolNames ==
  {<<"r", "e", "a", "d">>, <<"R", "e", "a", "d">>, <<"w", "r", "i", "t", "e">>,
   <<"W", "r", "i", "t", "e">>, <<"b", "a", "s", "h">>}

PathA == <<"/", "a">>

PathB == <<"/", "b">>

Metadatas ==
  {NoMetadata,
   Metadata(NotStr, NotStr, NotStr, NotStr),
   Metadata(Str(PathA), NotStr, NotStr, NotStr),
   Metadata(Str(<<>>), NotStr, Str(PathB), NotStr),
   Metadata(NotStr, Str(PathB), NotStr, Str(PathA))}

FileStates ==
  {Missing, Present(<<>>), Present(<<"a", "\n", "b">>), Present(<<"a", "\n">>)}

FileSystems == [{PathA, PathB} -> FileStates]

\* a part of a message: a file part with its mime type and, when it has a
\* source, the source text; or a text part
FilePart(mime, hasSource, text) ==
  [type |-> "file", mime |-> mime, hasSource |-> hasSource, text |-> text,
   synthetic |-> FALSE]

TextPart(text, synthetic) ==
  [type |-> "text", mime |-> "", hasSource |-> FALSE, text |-> text,
   synthetic |-> synthetic]

Message(role, parts) == [role |-> role, parts |-> parts]

PartLists ==
  {<<>>,
   <<FilePart("text/plain", TRUE, <<"a", "\n", "b">>)>>,
   <<FilePart("image/png", TRUE, <<"a">>)>>,
   <<FilePart("text/plain", FALSE, <<>>)>>,
   <<TextPart(<<"a">>, FALSE), FilePart("text/plain", TRUE, <<>>)>>}

MessageLists ==
  SeqsUpTo({Message(r, ps) : r \in {"user", "assistant"}, ps \in PartLists}, 2)

(***************************************************************************)
(* The state machine of one call of the hook                               *)
(***************************************************************************)

HookInit ==
  /\ content = <<>>
  /\ edits = <<>>
  /\ pc = "idle"
  /\ sortedEdits = <<>>
  /\ deduplicatedEdits = 0
  /\ lines = <<>>
  /\ idx = 0
  /\ noopEdits = 0
  /\ error = NoError
  /\ outContent = <<>>
  /\ AutocorrectIdle
  /\ DiffIdle
  /\ hookPc = "called"
  /\ \/ /\ operation = "tool.execute.after"
        /\ messages = <<>>
        /\ tool \in ToolNames
        /\ \/ /\ isReadTool(tool)
              /\ toolOutput \in {Str(o) : o \in ReadOutputs} \cup {NotStr}
              /\ metadata = Metadata(NotStr, NotStr, NotStr, NotStr)
              /\ files = [p \in {PathA, PathB} |-> Missing]
           \/ /\ ~isReadTool(tool)
              /\ toolOutput \in {Str(o) : o \in WriteOutputs} \cup {NotStr}
              /\ metadata \in Metadatas
              /\ files \in FileSystems
     \/ /\ operation = "experimental.chat.messages.transform"
        /\ messages \in MessageLists
        /\ tool = <<>>
        /\ toolOutput = Str(<<>>)
        /\ metadata = NoMetadata
        /\ files = [p \in {PathA, PathB} |-> Missing]
  /\ output = toolOutput

\* lines 196-211: the handler of tool.execute.after
ToolExecuteAfter ==
  /\ hookPc = "called"
  /\ operation = "tool.execute.after"
  /\ output' =
       IF ~isReadTool(tool)
         THEN IF isWriteTool(tool) /\ output.isString
                THEN Str(appendWriteHashlineOutput(output.text, metadata, files))
                ELSE output
       ELSE IF ~output.isString THEN output
       ELSE Str(transformOutput(output.text))
  /\ hookPc' = "returned"
  /\ UNCHANGED <<operation, tool, toolOutput, metadata, files, messages>>
  /\ UNCHANGED <<editVars, autocorrectVars, diffVars>>

\* a call of a property the hook object does not have: hook[operation] is
\* undefined and calling it throws a TypeError
CallMissingOperation ==
  /\ hookPc = "called"
  /\ operation \notin HookOperations
  /\ hookPc' = "threw"
  /\ UNCHANGED <<operation, tool, toolOutput, output, metadata, files, messages>>
  /\ UNCHANGED <<editVars, autocorrectVars, diffVars>>

HookNext ==
  \/ ToolExecuteAfter
  \/ CallMissingOperation

HookSpec == HookInit /\ [][HookNext]_vars

(***************************************************************************)
(* autocorrectReplacementLines as a state machine: the three steps of      *)
(* lines 111-114 of part_001 on an original range and its replacement      *)
(***************************************************************************)

\* the largest number of replacement lines
MaxReplacementLines == 4

\* original ranges: one line; two lines of the same whitespace-free form;
\* those with a third of another form; two forms; indented lines; two forms
\* that share a half, so that spans matching them can share a line; none
OriginalRanges ==
  {<<>>,
   <<<<"a", "b", "c", "a", "b", "c">>>>,
   <<<<"a", "b", "c", "a", "b", "c">>, <<"a", "b", "c", " ", "a", "b", "c">>>>,
   <<<<"a", "b", "c", "a", "b", "c">>, <<"a", "b", "c", " ", "a", "b", "c">>, <<"a", "b", "x", "a", "b", "x">>>>,
   <<<<"a", "b", "c", "a", "b", "c">>, <<"a", "b", "x", "a", "b", "x">>>>,
   <<<<" ", " ", "a", "b", "c", "a", "b", "c">>, <<" ", " ", "a", "b", "x", "a", "b", "x">>>>,
   <<<<"a", "b", "c", "a", "b", "x">>, <<"a", "b", "x", "a", "b", "c">>>>}

\* replacement lines: halves of an original line, a blank line, an original
\* line, two original lines merged into one, and that merge after other text
ReplacementLineTexts ==
  {<<"a", "b", "c">>, <<"a", "b", "x">>, <<" ">>,
   <<"a", "b", "c", "a", "b", "c">>,
   <<"a", "b", "c", "a", "b", "c", " ", "a", "b", "x", "a", "b", "x">>,
   <<"x", " ", "a", "b", "c", "a", "b", "c", " ", "a", "b", "x", "a", "b", "x">>}

AutocorrectInit ==
  /\ content = <<>>
  /\ edits = <<>>
  /\ pc = "idle"
  /\ sortedEdits = <<>>
  /\ deduplicatedEdits = 0
  /\ lines = <<>>
  /\ idx = 0
  /\ noopEdits = 0
  /\ error = NoError
  /\ outContent = <<>>
  /\ HookIdle
  /\ DiffIdle
  /\ acOriginalLines \in OriginalRanges
  /\ acReplacementLines \in SeqsUpTo(ReplacementLineTexts, MaxReplacementLines)
  /\ afterExpand = <<>>
  /\ afterRestore = <<>>
  /\ afterIndent = <<>>
  /\ autocorrectPc = "called"

\* line 112: next = maybeExpandSingleLineMerge(originalLines, next)
ExpandSingleLineMerge ==
  /\ autocorrectPc = "called"
  /\ afterExpand' = maybeExpandSingleLineMerge(acOriginalLines, acReplacementLines)
  /\ autocorrectPc' = "expanded"
  /\ UNCHANGED <<acOriginalLines, acReplacementLines, afterRestore, afterIndent>>
  /\ UNCHANGED <<editVars, hookVars, diffVars>>

\* line 113: next = restoreOldWrappedLines(originalLines, next)
RestoreOldWrappedLines ==
  /\ autocorrectPc = "expanded"
  /\ afterRestore' = restoreOldWrappedLines(acOriginalLines, afterExpand)
  /\ autocorrectPc' = "restored"
  /\ UNCHANGED <<acOriginalLines, acReplacementLines, afterExpand, afterIndent>>
  /\ UNCHANGED <<editVars, hookVars, diffVars>>

\* lines 114-115: next = restoreIndentForPairedReplacement(originalLines, next),
\* returned
RestoreIndent ==
  /\ autocorrectPc = "restored"
  /\ afterIndent' = restoreIndentForPairedReplacement(acOriginalLines, afterRestore)
  /\ autocorrectPc' = "returned"
  /\ UNCHANGED <<acOriginalLines, acReplacementLines, afterExpand, afterRestore>>
  /\ UNCHANGED <<editVars, hookVars, diffVars>>

AutocorrectNext ==
  \/ ExpandSingleLineMerge
  \/ RestoreOldWrappedLines
  \/ RestoreIndent

AutocorrectSpec == AutocorrectInit /\ [][AutocorrectNext]_vars

(***************************************************************************)
(* countLineDiffs (part_002) and one call of it as a state machine          *)
(***************************************************************************)

\* the value the Map built from ls holds for line: the number of lines of ls
\* equal to it (0 stands for undefined, that `?? 0` reads as 0)
LineCount(ls, line) == Cardinality({i \in 1..Len(ls) : ls[i] = line})

\* the keys of the Map built from ls, in insertion order: each line at its
\* first occurrence
MapKeys(ls) ==
  LET firsts == {i \in 1..Len(ls) : \A j \in 1..(i - 1) : ls[j] # ls[i]}
      Nth(k) == CHOOSE i \in firsts : Cardinality({j \in firsts : j < i}) = k - 1
  IN  [k \in 1..Cardinality(firsts) |-> ls[Nth(k)]]

RECURSIVE SurplusOver(_, _, _)
\* the loops of lines 22-36: over the keys of one Map, the sum of
\* count - otherCount where count > otherCount
SurplusOver(keys, ls, others) ==
  IF keys = <<>> THEN 0
  ELSE LET count == LineCount(ls, Head(keys))
           otherCount == LineCount(others, Head(keys))
       IN  (IF count > otherCount THEN count - otherCount ELSE 0)
             + SurplusOver(Tail(keys), ls, others)

\* mutant: the lines are counted as sets, a line once however often it
\* occurs
countLineDiffs_asSets(oldContent, newContent) ==
  LET oldLines == Split(oldContent, "\n")
      newLines == Split(newContent, "\n")
      present(ls) == {ls[i] : i \in 1..Len(ls)}
  IN  [additions |-> Cardinality(present(newLines) \ present(oldLines)),
       deletions |-> Cardinality(present(oldLines) \ present(newLines))]

countLineDiffs(oldContent, newContent) ==
  LET oldLines == Split(oldContent, "\n")
      newLines == Split(newContent, "\n")
  IN  [additions |-> SurplusOver(MapKeys(newLines), newLines, oldLines),
       deletions |-> SurplusOver(MapKeys(oldLines), oldLines, newLines)]

\* the largest number of lines of a content given to countLineDiffs
MaxDiffLines == 3

\* the lines the contents are made of; the empty line is what a trailing or
\* doubled newline splits to
DiffLineTexts == {<<>>, <<"a">>, <<"b">>}

\* contents of 1 to MaxDiffLines lines, the empty content among them
DiffContents ==
  {Join(ls, "\n") : ls \in SeqsUpTo(DiffLineTexts, MaxDiffLines) \ {<<>>}}

DiffInit ==
  /\ content = <<>>
  /\ edits = <<>>
  /\ pc = "idle"
  /\ sortedEdits = <<>>
  /\ deduplicatedEdits = 0
  /\ lines = <<>>
  /\ idx = 0
  /\ noopEdits = 0
  /\ error = NoError
  /\ outContent = <<>>
  /\ HookIdle
  /\ AutocorrectIdle
  /\ diffOldContent \in DiffContents
  /\ diffNewContent \in DiffContents
  /\ additions = 0
  /\ deletions = 0
  /\ diffPc = "called"

\* lines 8-39: the call returns { additions, deletions }
CountLineDiffs ==
  /\ diffPc = "called"
  /\ LET result == countLineDiffs(diffOldContent, diffNewContent)
     IN  /\ additions' = result.additions
         /\ deletions' = result.deletions
  /\ diffPc' = "returned"
  /\ UNCHANGED <<diffOldContent, diffNewContent>>
  /\ UNCHANGED <<editVars, hookVars, autocorrectVars>>

DiffNext == CountLineDiffs

DiffSpec == DiffInit /\ [][DiffNext]_vars

(***************************************************************************)
(* Claims                                                                  *)
(***************************************************************************)

\* the references (pos, and end of a ranged replace) of the submitted batch
SubmittedRefs == {r \in UNION {{e.pos, e.end} : e \in {edits[i] : i \in 1..Len(edits)}} :
                    r.present}

\* a reference citing a hash that differs from the hash of that line of the
\* input content
IsStale(r) ==
  /\ r.wellFormed
  /\ r.hash # -1
  /\ r.line \in 1..Len(InputLines)
  /\ computeLineHash(r.line, InputLines[r.line]) # r.hash

HasStaleAnchor == \E r \in SubmittedRefs : IsStale(r)

\* no edit of the batch has been applied: the loop was never entered, or the
\* working line sequence still is the input's
NothingApplied == idx = 0 \/ lines = InputLines

\* C1 as stated: a batch with a stale anchor fails with StaleLineReference,
\* whatever its other edits are, and nothing has been applied
C1_StaleAlwaysStaleLineReference ==
  (Ended /\ HasStaleAnchor) =>
    (pc = "failed" /\ error = "StaleLineReference" /\ NothingApplied)

\* C1 amended: a batch with a stale anchor fails before any edit is applied,
\* with StaleLineReference when every reference of the batch is well-formed
\* and in range, and otherwise with the InvalidLineRefFormat or
\* LineOutOfRange of a reference checked before the stale one
C1_StaleBatchRejected ==
  (Ended /\ HasStaleAnchor) =>
    /\ pc = "failed"
    /\ NothingApplied
    /\ error \in {"StaleLineReference", "InvalidLineRefFormat", "LineOutOfRange"}
    /\ (\A r \in SubmittedRefs : r.wellFormed /\ r.line \in 1..Len(InputLines))
         => error = "StaleLineReference"

\* C1 witness: a two-edit batch whose second edit has a stale end anchor and
\* whose first edit is valid has failed with StaleLineReference
C1_Witness ==
  /\ pc = "failed"
  /\ error = "StaleLineReference"
  /\ Len(edits) = 2
  /\ edits[2].end.present /\ IsStale(edits[2].end) /\ ~IsStale(edits[2].pos)
  /\ \A r \in {edits[1].pos, edits[1].end} : r.present => validateLineRef(InputLines, r) = NoError

\* C2: every failure of a batch is raised before any edit of the batch has
\* been applied: when the function fails, the working line sequence equals
\* the line sequence of the input content
C2_FailureBeforeAnyEdit == pc = "failed" => NothingApplied

\* the edit the loop is about to apply
AtEdit == pc = "apply" /\ idx <= Len(sortedEdits)

\* C3: when an edit is applied, every line number it anchors to still is, in
\* the working line sequence, the line of the original snapshot, as long as
\* no edit applied before it has the same anchor line
C3_AnchorsStillResolve ==
  (AtEdit /\ \A j \in 1..(idx - 1) :
               getEditLineNumber(sortedEdits[j]) # getEditLineNumber(sortedEdits[idx]))
    => \A k \in 1..Len(collectLineRefsOf(sortedEdits[idx])) :
         LET r == collectLineRefsOf(sortedEdits[idx])[k]
         IN  r.line <= Len(lines) /\ lines[r.line] = InputLines[r.line]

\* C4: anchors are validated once, against the input's lines; once the loop
\* over the edits has started, no failure is a StaleLineReference or a
\* LineOutOfRange (nor a parse failure), even when an earlier edit of the
\* batch changed the anchored line
C4_NoValidationAfterFirstEdit ==
  (pc = "failed" /\ idx >= 1) =>
    error \notin {"StaleLineReference", "LineOutOfRange", "InvalidLineRefFormat"}

\* C4 witness: the loop applies an edit whose anchor no longer validates
\* against the working line sequence, changed by an earlier edit of the batch
C4_Witness ==
  /\ AtEdit
  /\ idx >= 2
  /\ sortedEdits[idx].pos.present
  /\ validateLineRef(InputLines, sortedEdits[idx].pos) = NoError
  /\ validateLineRef(lines, sortedEdits[idx].pos) = "StaleLineReference"
  /\ ApplyEdit(lines, sortedEdits[idx]).err = NoError

IsRanged(e) == e.op = "replace" /\ e.end.present

SharesLine(e, f) == e.pos.line <= f.end.line /\ f.pos.line <= e.end.line

\* every anchor of the batch is valid and every ranged replace has start <= end
ValidAnchorsAndRanges ==
  /\ \A r \in SubmittedRefs : validateLineRef(InputLines, r) = NoError
  /\ \A i \in 1..Len(edits) : IsRanged(edits[i]) => edits[i].pos.line <= edits[i].end.line

\* C5 as stated: such a batch fails with OverlappingRangeEdits if and only if
\* it contains two ranged replaces whose inclusive intervals share a line
C5_OverlapIffTwoSubmittedRangesShare ==
  (Ended /\ ValidAnchorsAndRanges) =>
    ((pc = "failed" /\ error = "OverlappingRangeEdits")
       <=> \E i, j \in 1..Len(edits) :
             /\ i # j
             /\ IsRanged(edits[i]) /\ IsRanged(edits[j])
             /\ SharesLine(edits[i], edits[j]))

\* C5 amended: such a batch fails with OverlappingRangeEdits if and only if,
\* among the edits that survive deduplication, two ranged replaces have
\* inclusive intervals that share a line; single-line replaces, appends and
\* prepends never cause it
C5_OverlapIffTwoSurvivingRangesShare ==
  (Ended /\ ValidAnchorsAndRanges) =>
    ((pc = "failed" /\ error = "OverlappingRangeEdits")
       <=> \E i, j \in 1..Len(edits) :
             /\ i # j
             /\ IsRanged(edits[i]) /\ IsRanged(edits[j])
             /\ buildDedupeKey(edits[i]) # buildDedupeKey(edits[j])
             /\ SharesLine(edits[i], edits[j]))

\* C5 witness: two ranged replaces that share exactly one line have failed
\* with OverlappingRangeEdits
C5_Witness ==
  /\ pc = "failed"
  /\ error = "OverlappingRangeEdits"
  /\ ValidAnchorsAndRanges
  /\ Len(edits) = 2
  /\ IsRanged(edits[1]) /\ IsRanged(edits[2])
  /\ edits[1].end.line = edits[2].pos.line

\* the position in the batch of the first edit with the key of edits[i]
FirstWithKey(i) ==
  CHOOSE f \in 1..i :
    /\ buildDedupeKey(edits[f]) = buildDedupeKey(edits[i])
    /\ \A g \in 1..(f - 1) : buildDedupeKey(edits[g]) # buildDedupeKey(edits[i])

\* C6: dedupeEdits keeps exactly the first edit of every key, in the order of
\* the batch, and deduplicatedEdits is the number of edits dropped; a batch
\* that is one edit repeated k times reports deduplicatedEdits = k - 1 and
\* ends as the batch made of that edit once
C6_DedupeKeepsFirst ==
  LET kept == dedupeEdits(edits).edits
      firsts == {FirstWithKey(i) : i \in 1..Len(edits)}
  IN  /\ Len(kept) = Cardinality(firsts)
      /\ \A k \in 1..Len(kept) :
           \E f \in firsts :
             /\ kept[k] = edits[f]
             /\ Cardinality({g \in firsts : g < f}) = k - 1
      /\ (pc # "start" /\ Len(edits) > 0)
           => deduplicatedEdits = Len(edits) - Cardinality(firsts)
      /\ (Ended /\ Len(edits) >= 1 /\ \A i \in 1..Len(edits) : edits[i] = edits[1])
           => /\ pc = "done" => deduplicatedEdits = Len(edits) - 1
              /\ Outcome = [applyHashlineEditsWithReport(content, <<edits[1]>>)
                              EXCEPT !.deduplicatedEdits =
                                IF pc = "done" THEN Len(edits) - 1 ELSE 0]

\* C6 witness: a batch of one edit submitted twice has ended with a changed
\* content
C6_Witness ==
  /\ pc = "done"
  /\ Len(edits) = 2
  /\ edits[1] = edits[2]
  /\ deduplicatedEdits = 1
  /\ outContent # content

\* a single-line replace of line i of the input by its own current text
IsSelfReplace(e) ==
  /\ e.op = "replace"
  /\ ~e.end.present
  /\ validateLineRef(InputLines, e.pos) = NoError
  /\ toNewLines(e.lines) = <<InputLines[e.pos.line]>>

\* C7: an edit whose candidate line sequence equals the working line
\* sequence is not applied and counts as one no-op, without an error; a
\* batch made of a single-line replace of a line by its own text returns the
\* content unchanged with noopEdits = 1
C7_NoopCounted ==
  /\ [](((pc = "done" /\ Len(edits) = 1) /\ IsSelfReplace(edits[1]))
          => (outContent = content /\ noopEdits = 1))
  /\ [][(AtEdit /\ ApplyEdit(lines, sortedEdits[idx]) = Returned(lines))
          => (lines' = lines /\ noopEdits' = noopEdits + 1 /\ pc' = "apply"
              /\ idx' = idx + 1 /\ error' = error)]_vars

\* C7 witness: the batch made of one replace of a line by its own text has
\* ended with one no-op
C7_Witness ==
  /\ pc = "done"
  /\ Len(edits) = 1
  /\ IsSelfReplace(edits[1])
  /\ noopEdits = 1

RECURSIVE SubmissionOrders(_)
\* the orders in which the edits of the sequence es can be submitted
SubmissionOrders(es) ==
  IF Len(es) <= 1 THEN {es}
  ELSE UNION {{<<es[i]>> \o q :
                 q \in SubmissionOrders(SubSeq(es, 1, i - 1) \o SubSeq(es, i + 1, Len(es)))} :
              i \in 1..Len(es)}

\* no two edits of the batch have the same anchor line and the same op
DistinctAnchorAndOp ==
  /\ \A i \in 1..Len(edits) : parseLineRef(SortRef(edits[i])).err = NoError
  /\ \A i, j \in 1..Len(edits) :
       i # j => \/ edits[i].op # edits[j].op
                \/ getEditLineNumber(edits[i]) # getEditLineNumber(edits[j])

\* the lines an anchored append inserts, and the lines a single-line replace
\* puts in place of its line, when applied alone to the input
InsertedAlone(e) == stripInsertAnchorEcho(InputLines[e.pos.line], toNewLines(e.lines))

ReplacedAlone(e) ==
  RestoreFirst(InputLines[e.pos.line],
               autocorrectReplacementLines(<<InputLines[e.pos.line]>>, toNewLines(e.lines)))

\* an append after line i and a single-line replace of line j > i
AppendThenReplaceBelow(a, r) ==
  /\ a.op = "append" /\ a.pos.present
  /\ r.op = "replace" /\ ~r.end.present
  /\ a.pos.line < r.pos.line

\* C8: with no two edits sharing anchor line and op, every order of
\* submission ends alike (same report or same failure); an append after line
\* i with a single-line replace of line j > i gives the input with line j
\* replaced and the new text directly after line i, in either order
C8_OrderOfSubmissionIrrelevant ==
  /\ (Ended /\ DistinctAnchorAndOp)
       => \A q \in SubmissionOrders(edits) : applyHashlineEditsWithReport(content, q) = Outcome
  /\ (pc = "done" /\ Len(edits) = 2)
       => \A a, r \in {edits[1], edits[2]} :
            AppendThenReplaceBelow(a, r)
              => lines = SubSeq(InputLines, 1, a.pos.line)
                           \o InsertedAlone(a)
                           \o SubSeq(InputLines, a.pos.line + 1, r.pos.line - 1)
                           \o ReplacedAlone(r)
                           \o SubSeq(InputLines, r.pos.line + 1, Len(InputLines))

\* C8 witness: the append was submitted first and the replace below it
\* second, and both changed the content
C8_Witness ==
  /\ pc = "done"
  /\ Len(edits) = 2
  /\ AppendThenReplaceBelow(edits[1], edits[2])
  /\ noopEdits = 0
  /\ Len(lines) > Len(InputLines)

IsWholeFile(e) == e.op \in {"append", "prepend"} /\ ~e.pos.present

\* C9: a whole-file append or prepend of non-empty text onto the line
\* sequence [""] gives exactly the inserted lines, and on the empty content
\* the returned content is the inserted lines joined by newline
C9_EmptyFileInsert ==
  /\ (AtEdit /\ IsWholeFile(sortedEdits[idx]) /\ IsEmptyFile(lines)
        /\ Len(toNewLines(sortedEdits[idx].lines)) > 0)
       => ApplyEdit(lines, sortedEdits[idx]) = Returned(toNewLines(sortedEdits[idx].lines))
  /\ (Ended /\ Len(content) = 0 /\ Len(edits) = 1 /\ IsWholeFile(edits[1])
        /\ Len(toNewLines(edits[1].lines)) > 0)
       => (pc = "done" /\ outContent = Join(toNewLines(edits[1].lines), "\n"))

\* C9 witness: a whole-file append of non-empty text is about to be applied
\* to the line sequence [""]
C9_Witness ==
  /\ AtEdit
  /\ sortedEdits[idx].op = "append"
  /\ IsWholeFile(sortedEdits[idx])
  /\ IsEmptyFile(lines)
  /\ Len(toNewLines(sortedEdits[idx].lines)) > 0

\* the one replacement line holds the trimmed lines of the original range,
\* in their order
MergesOriginal(originalRange, replacement) ==
  /\ Len(originalRange) > 1
  /\ Len(replacement) = 1
  /\ \A k \in 1..Len(originalRange) : Len(Trim(originalRange[k])) > 0
  /\ LocateParts([k \in 1..Len(originalRange) |-> Trim(originalRange[k])],
                 replacement[1], 0, <<>>).ok

\* C10: a ranged replace whose one-line replacement merges the lines of its
\* original range puts back as many lines as the range had, each with the
\* leading indentation of the original line at its position
C10_MergedLinesReindented ==
  (pc = "done" /\ Len(edits) = 1 /\ IsRanged(edits[1])
     /\ MergesOriginal(SubSeq(InputLines, edits[1].pos.line, edits[1].end.line),
                       toNewLines(edits[1].lines)))
    => /\ Len(lines) = Len(InputLines)
       /\ \A k \in edits[1].pos.line..edits[1].end.line :
            leadingWhitespace(lines[k]) = leadingWhitespace(InputLines[k])

\* C11: an empty batch returns the content unchanged, whatever the content
\* (empty, ending in a newline), with noopEdits = 0 and deduplicatedEdits = 0
C11_EmptyBatchRoundTrip ==
  /\ (Ended /\ Len(edits) = 0)
       => /\ pc = "done"
          /\ outContent = content
          /\ noopEdits = 0
          /\ deduplicatedEdits = 0
  /\ \A c \in Contents : applyHashlineEditsWithReport(c, <<>>) = Report(c, 0, 0)

\* an empty batch on a content that ends in a newline has returned
C11_Witness ==
  /\ pc = "done"
  /\ Len(edits) = 0
  /\ Len(content) > 0
  /\ content[Len(content)] = "\n"

\* the lines of the output the read tool produced, and of the output the
\* hook leaves
InLines == Split(toolOutput.text, "\n")

OutLines == Split(output.text, "\n")

ReadReturned ==
  /\ hookPc = "returned"
  /\ operation = "tool.execute.after"
  /\ isReadTool(tool)
  /\ toolOutput.isString

OpenTagOf(kind) == IF kind = "content" THEN CONTENT_OPEN_TAG ELSE FILE_OPEN_TAG

CloseTagOf(kind) == IF kind = "content" THEN CONTENT_CLOSE_TAG ELSE FILE_CLOSE_TAG

\* lines i < j of the tool's output open and close a block of the kind
IsBlock(inl, kind, i, j) ==
  /\ i \in 1..Len(inl)
  /\ j \in (i + 1)..Len(inl)
  /\ StartsWith(inl[i], OpenTagOf(kind))
  /\ inl[j] = CloseTagOf(kind)

\* `N#HH|content` of a numbered line
Annotated(line) ==
  LET parsed == parseReadLine(line)
  IN  NumberText(parsed.lineNumber) \o <<"#">>
        \o HashText(computeLineHash(parsed.lineNumber, parsed.content))
        \o <<"|">> \o parsed.content

IsTruncated(line) ==
  EndsWith(parseReadLine(line).content, OPENCODE_LINE_TRUNCATION_SUFFIX)

\* the hook has rewritten the block (kind, i, j) and nothing else: the lines
\* before the opening line and from the closing tag on are identical; an
\* opening line that carries the first line is split into the tag and that
\* line when the line is numbered; the numbered lines up to the first line
\* that is not numbered are annotated (left alone when truncated), the
\* other lines of the block are identical
OnlyBlockRewritten(inl, outl, kind, i, j) ==
  LET openTag == OpenTagOf(kind)
      inline == inl[i] # openTag
      first == SubSeq(inl[i], Len(openTag) + 1, Len(inl[i]))
      contentIn == (IF inline THEN <<first>> ELSE <<>>) \o SubSeq(inl, i + 1, j - 1)
      split == inline /\ parseReadLine(first).ok
      d == IF split THEN 1 ELSE 0
      contentOut == IF inline /\ ~split THEN contentIn
                    ELSE SubSeq(outl, i + 1, j - 1 + d)
  IN  /\ Len(outl) = Len(inl) + d
      /\ \A k \in 1..(i - 1) : outl[k] = inl[k]
      /\ \A k \in j..Len(inl) : outl[k + d] = inl[k]
      /\ outl[i] = IF split THEN openTag ELSE inl[i]
      /\ Len(contentOut) = Len(contentIn)
      /\ \A k \in 1..Len(contentIn) :
           contentOut[k] =
             IF (\A m \in 1..k : parseReadLine(contentIn[m]).ok)
                  /\ ~IsTruncated(contentIn[k])
               THEN Annotated(contentIn[k])
               ELSE contentIn[k]

\* the first block of the output: no opening line before i, no closing tag
\* of the kind between i and j
FirstBlock(inl, kind, i, j) ==
  /\ IsBlock(inl, kind, i, j)
  /\ \A k \in 1..(i - 1) :
       ~StartsWith(inl[k], CONTENT_OPEN_TAG) /\ ~StartsWith(inl[k], FILE_OPEN_TAG)
  /\ \A k \in (i + 1)..(j - 1) : inl[k] # CloseTagOf(kind)

\* the block the hook looks for: opened by the first line that starts with
\* <content> or, when no line does, by the first that starts with <file>,
\* and closed by the first line of the whole output that is the matching
\* closing tag
DetectedBlock(inl, kind, i, j) ==
  /\ IsBlock(inl, kind, i, j)
  /\ kind = "file" => \A k \in 1..Len(inl) : ~StartsWith(inl[k], CONTENT_OPEN_TAG)
  /\ \A k \in 1..(i - 1) : ~StartsWith(inl[k], OpenTagOf(kind))
  /\ \A k \in 1..(j - 1) : inl[k] # CloseTagOf(kind)

ChatTransformEnded ==
  /\ operation = "experimental.chat.messages.transform"
  /\ hookPc # "called"

\* the index of the last user message, 0 when there is none
LastUserMessage ==
  LET users == {k \in 1..Len(messages) : messages[k].role = "user"}
  IN  IF users = {} THEN 0 ELSE CHOOSE k \in users : \A m \in users : k >= m

IsTextFilePartWithSource(part) ==
  /\ part.type = "file"
  /\ part.mime = "text/plain"
  /\ part.hasSource
  /\ part.text # <<>>

\* the lines of text, each as `N#HH|line`
AnnotatedText(text) ==
  LET ls == Split(text, "\n")
  IN  Join([k \in 1..Len(ls) |->
              NumberText(k) \o <<"#">> \o HashText(computeLineHash(k, ls[k]))
                \o <<"|">> \o ls[k]], "\n")

\* C13: the hook object has an experimental.chat.messages.transform
\* operation; called on a message list it returns, and in the last user
\* message every text file part with a non-empty source text is preceded by
\* a synthetic text part holding the annotated lines of that text
C13_ChatTransformInjectsLineIds ==
  ChatTransformEnded =>
    /\ "experimental.chat.messages.transform" \in HookOperations
    /\ hookPc = "returned"
    /\ LastUserMessage > 0 =>
         LET parts == messages[LastUserMessage].parts
         IN  \A k \in 1..Len(parts) :
               IsTextFilePartWithSource(parts[k]) =>
                 /\ k > 1
                 /\ parts[k - 1] = TextPart(AnnotatedText(parts[k].text), TRUE)

WriteReturned ==
  /\ hookPc = "returned"
  /\ operation = "tool.execute.after"
  /\ isWriteTool(tool)
  /\ toolOutput.isString

\* `File written successfully. <n> lines written.`
SuccessMessage(n) ==
  <<"F", "i", "l", "e", " ", "w", "r", "i", "t", "t", "e", "n", " ",
    "s", "u", "c", "c", "e", "s", "s", "f", "u", "l", "l", "y", ".",
    " ">>
    \o NumberText(n) \o <<" ", "l", "i", "n", "e", "s", " ", "w", "r", "i", "t", "t", "e",
    "n", ".">>

\* the output tells of a failure: it starts with `error` or contains
\* `failed`, whatever the case of the letters
TellsFailure(out) ==
  \/ StartsWith(toLowerCase(out), <<"e", "r", "r", "o", "r">>)
  \/ Includes(toLowerCase(out), <<"f", "a", "i", "l", "e", "d">>)

\* the metadata names the path of a file that exists
NamesExistingFile ==
  /\ extractFilePath(metadata).defined
  /\ FileAt(files, extractFilePath(metadata).path).exists

WrittenLineCount ==
  LET fileText == FileAt(files, extractFilePath(metadata).path).text
  IN  IF fileText = <<>> THEN 0 ELSE Len(Split(fileText, "\n"))

\* C14: a write result is replaced by the success message exactly when it
\* does not already start with the success marker, does not tell of a
\* failure, and the metadata names a file that exists; in every other case
\* it is left as the tool produced it
C14_WriteSummaryOnlyOnSuccess ==
  WriteReturned =>
    output = IF /\ ~StartsWith(toolOutput.text, WRITE_SUCCESS_MARKER)
                /\ ~TellsFailure(toolOutput.text)
                /\ NamesExistingFile
               THEN Str(SuccessMessage(WrittenLineCount))
               ELSE toolOutput

\* an error output of a write whose file exists from an earlier write has
\* been left as it was
C14_Witness ==
  /\ WriteReturned
  /\ StartsWith(toLowerCase(toolOutput.text), <<"e", "r", "r", "o", "r">>)
  /\ NamesExistingFile
  /\ output = toolOutput

\* what the OverlappingRangeEdits message of the failed run names
OverlapMessage == detectOverlappingRanges(sortedEdits)

\* the submitted batch has at position k a ranged replace of the span
SubmittedRangeAt(k, span) ==
  /\ k \in 1..Len(edits)
  /\ IsRanged(edits[k])
  /\ edits[k].pos.line = span.start
  /\ edits[k].end.line = span.end

\* C15: the two edit numbers of an OverlappingRangeEdits error are the
\* positions, in the batch as submitted, of the ranged replaces whose line
\* spans the error names
C15_OverlapNamesSubmittedPositions ==
  (pc = "failed" /\ error = "OverlappingRangeEdits") =>
    /\ SubmittedRangeAt(OverlapMessage.prev, OverlapMessage.prevSpan)
    /\ SubmittedRangeAt(OverlapMessage.curr, OverlapMessage.currSpan)

IsAnchored(e) == ~IsWholeFile(e)

\* the edits the loop has still to apply after the one at idx
Pending == {sortedEdits[k] : k \in (idx + 1)..Len(sortedEdits)}

\* C16 as stated: a whole-file append is applied after every anchored edit
\* of the batch, a whole-file prepend before every anchored edit
C16_AppendLastPrependFirst ==
  AtEdit =>
    /\ (sortedEdits[idx].op = "append" /\ IsWholeFile(sortedEdits[idx]))
         => \A e \in Pending : ~IsAnchored(e)
    /\ IsAnchored(sortedEdits[idx])
         => \A e \in Pending : ~(e.op = "prepend" /\ IsWholeFile(e))

\* C16, amended: a whole-file append and a whole-file prepend are both
\* applied after every anchored edit of the batch, the append before the
\* prepend
C16_WholeFileEditsLast ==
  AtEdit =>
    /\ IsWholeFile(sortedEdits[idx]) => \A e \in Pending : IsWholeFile(e)
    /\ (sortedEdits[idx].op = "prepend" /\ IsWholeFile(sortedEdits[idx]))
         => \A e \in Pending : e.op = "prepend"

\* a whole-file prepend is applied after an anchored edit of its batch
C16_Witness ==
  /\ AtEdit
  /\ idx = 2
  /\ sortedEdits[2].op = "prepend"
  /\ IsWholeFile(sortedEdits[2])
  /\ IsAnchored(sortedEdits[1])
  /\ edits[1] = sortedEdits[2]

\* the edits have been deduplicated and sorted
Sorted == pc \in {"validate", "overlap", "apply", "done"} /\ Len(edits) > 0

\* the first position of an edit in the submitted batch
SubmittedAt(e) ==
  CHOOSE k \in 1..Len(edits) : edits[k] = e /\ \A m \in 1..(k - 1) : edits[m] # e

\* edit a is applied before edit b by the order of C17
AppliesBefore(a, b) ==
  \/ getEditLineNumber(a) > getEditLineNumber(b)
  \/ /\ getEditLineNumber(a) = getEditLineNumber(b)
     /\ EDIT_PRECEDENCE(a.op) < EDIT_PRECEDENCE(b.op)
  \/ /\ getEditLineNumber(a) = getEditLineNumber(b)
     /\ a.op = b.op
     /\ SubmittedAt(a) < SubmittedAt(b)

\* C17: the surviving edits are applied one by one in the order of sortedEdits,
\* which has them by descending anchor line, at the same anchor line replace
\* before append before prepend, and at the same anchor line and op in the
\* order of the submitted batch
C17_ApplicationOrder ==
  /\ [](Sorted =>
          /\ Len(sortedEdits) = Len(edits) - deduplicatedEdits
          /\ \A i \in 1..Len(sortedEdits) : \E k \in 1..Len(edits) : edits[k] = sortedEdits[i]
          /\ \A i \in 1..Len(sortedEdits), j \in 1..Len(sortedEdits) :
               i < j => AppliesBefore(sortedEdits[i], sortedEdits[j]))
  /\ [][(pc = "apply" /\ pc' = "apply") => (idx' = idx + 1 /\ sortedEdits' = sortedEdits)]_vars

\* two replaces of the same line are about to be applied in the order they
\* were submitted in, the second one
C17_Witness ==
  /\ AtEdit
  /\ idx = 2
  /\ sortedEdits[1].op = "replace"
  /\ sortedEdits[2].op = "replace"
  /\ getEditLineNumber(sortedEdits[1]) = getEditLineNumber(sortedEdits[2])
  /\ edits = sortedEdits

\* restoreOldWrappedLines has run: its input is afterExpand, its result
\* afterRestore
WrapDone == autocorrectPc \in {"restored", "returned"}

\* the spans of 2 to 10 contiguous lines of ls, by first line and length
SpansOf(ls) ==
  {sp \in (1..Len(ls)) \X (2..WrapMaxSpan) : sp[1] + sp[2] - 1 <= Len(ls)}

SpanLines(ls, sp) == SubSeq(ls, sp[1], sp[1] + sp[2] - 1)

\* the whitespace-free concatenation of the lines of the span
SpanForm(ls, sp) == stripAllWhitespace(Concat(SpanLines(ls, sp)))

\* a candidate span has no blank line
IsCandidateSpan(ls, sp) == \A k \in 1..sp[2] : Trim(SpanLines(ls, sp)[k]) # <<>>

OriginalsWithForm(orig, form) ==
  {i \in 1..Len(orig) : stripAllWhitespace(orig[i]) = form}

SharesForm(ls, sp) ==
  \E sq \in SpansOf(ls) \ {sp} : IsCandidateSpan(ls, sq) /\ SpanForm(ls, sq) = SpanForm(ls, sp)

\* the form of the span is the form of exactly one original line, and of no
\* other candidate span
Unambiguous(orig, ls, sp) ==
  /\ IsCandidateSpan(ls, sp)
  /\ Cardinality(OriginalsWithForm(orig, SpanForm(ls, sp))) = 1
  /\ ~SharesForm(ls, sp)

\* the form of the span is the form of two original lines, or of an
\* original line and of another candidate span
Ambiguous(orig, ls, sp) ==
  /\ IsCandidateSpan(ls, sp)
  /\ OriginalsWithForm(orig, SpanForm(ls, sp)) # {}
  /\ \/ Cardinality(OriginalsWithForm(orig, SpanForm(ls, sp))) > 1
     \/ SharesForm(ls, sp)

Overlap(sp, sq) == sp[1] <= sq[1] + sq[2] - 1 /\ sq[1] <= sp[1] + sp[2] - 1

\* the unambiguous spans whose form is long enough to be restored
Restorable(orig, ls) ==
  {u \in SpansOf(ls) : Unambiguous(orig, ls, u) /\ Len(SpanForm(ls, u)) >= WrapMinCanonical}

\* the number of lines before line k that the restoration of disjoint
\* spans takes away
LinesRemovedBefore(spans, k) ==
  Cardinality({m \in 1..(k - 1) : \E u \in spans : u[1] < m /\ m <= u[1] + u[2] - 1})

TargetStart(e) == e.pos.line

TargetEnd(e) == IF IsRanged(e) THEN e.end.line ELSE e.pos.line

\* the anchors of the edit are lines of ls, a range has start <= end
AnchorsInRange(e, ls) ==
  /\ e.pos.present
  /\ e.pos.wellFormed
  /\ IsRanged(e) => e.end.wellFormed
  /\ 1 <= TargetStart(e)
  /\ TargetStart(e) <= TargetEnd(e)
  /\ TargetEnd(e) <= Len(ls)

\* the first `kept` lines of before are the first lines of after
SameHead(before, after, kept) ==
  /\ Len(after) >= kept
  /\ SubSeq(after, 1, kept) = SubSeq(before, 1, kept)

\* the lines of before after line `last` are the last lines of after
SameTail(before, after, last) ==
  /\ Len(after) >= Len(before) - last
  /\ SubSeq(after, Len(after) - (Len(before) - last) + 1, Len(after))
       = SubSeq(before, last + 1, Len(before))

\* the frame of the primitive that applies e: a replace keeps the lines
\* above start and below end, an insertion after the anchor the lines up
\* to the anchor and those below it, an insertion before the anchor the
\* lines above the anchor and those from the anchor on; head and tail do
\* not overlap in the result
Frame(e, before, after) ==
  LET kept == CASE e.op = "replace" -> TargetStart(e) - 1
                [] e.op = "append" -> TargetStart(e)
                [] e.op = "prepend" -> TargetStart(e) - 1
      last == CASE e.op = "replace" -> TargetEnd(e)
                [] e.op = "append" -> TargetStart(e)
                [] e.op = "prepend" -> TargetStart(e) - 1
  IN  /\ SameHead(before, after, kept)
      /\ SameTail(before, after, last)
      /\ Len(after) >= kept + (Len(before) - last)

C20_EveryEditAccountedOnce ==
  /\ [](pc = "done" =>
          /\ deduplicatedEdits >= 0
          /\ noopEdits >= 0
          /\ noopEdits <= Len(edits) - deduplicatedEdits
          /\ Len(sortedEdits) = Len(edits) - deduplicatedEdits
          /\ Len(edits) > 0 => idx - 1 = Len(sortedEdits)
          /\ noopEdits = Len(edits) - deduplicatedEdits => outContent = content)
  /\ [](pc = "apply" => noopEdits <= idx - 1)
  /\ [][(pc = "apply" /\ pc' = "apply") =>
          /\ idx' = idx + 1
          /\ \/ noopEdits' = noopEdits + 1 /\ lines' = lines
             \/ noopEdits' = noopEdits /\ lines' # lines]_vars

\* a batch has succeeded in which, of two edits that survived, one was a
\* no-op and one changed the content
C20_Witness ==
  /\ pc = "done"
  /\ Len(edits) = 2
  /\ deduplicatedEdits = 0
  /\ noopEdits = 1
  /\ outContent # content

\* the single-line-merge expansion has run and returned something other than
\* the replacement it was given
MergeExpanded == autocorrectPc # "called" /\ afterExpand # acReplacementLines

\* C21: whenever maybeExpandSingleLineMerge returns something other than its
\* input, the returned lines concatenated, all whitespace removed, are the
\* merged replacement line with all whitespace removed
C21_ExpansionLosesNoText ==
  MergeExpanded =>
    stripAllWhitespace(Concat(afterExpand)) = stripAllWhitespace(acReplacementLines[1])

\* the original line whose whitespace-free form the span has
OriginalOf(orig, ls, u) ==
  orig[CHOOSE i \in 1..Len(orig) : stripAllWhitespace(orig[i]) = SpanForm(ls, u)]

\* line k of ls is a line of one of the spans
InSpans(spans, k) == \E u \in spans : u[1] <= k /\ k <= u[1] + u[2] - 1

\* the original lines of the spans that start at line k, shortest span first
OriginalsStartingAt(orig, ls, spans, k) ==
  LET starting == SelectSeq([j \in 1..(WrapMaxSpan - 1) |-> <<k, j + 1>>],
                            LAMBDA u : u \in spans)
  IN  [j \in 1..Len(starting) |-> OriginalOf(orig, ls, starting[j])]

RECURSIVE RestoredFrom(_, _, _, _)
\* ls from line k on with every span replaced by its original line: where a
\* span starts stands its original line, a line of no span stands as it is,
\* and the other lines of the spans are gone
RestoredFrom(orig, ls, spans, k) ==
  IF k > Len(ls) THEN <<>>
  ELSE OriginalsStartingAt(orig, ls, spans, k)
         \o (IF InSpans(spans, k) THEN <<>> ELSE <<ls[k]>>)
         \o RestoredFrom(orig, ls, spans, k + 1)

\* C22: the result of stale-wrap restoration is the replacement with each
\* restored span replaced by exactly its matching original line and every
\* line outside the restored spans unchanged and in order, also when
\* restored spans share lines
C22_SpansRestoredOthersKept ==
  WrapDone =>
    LET Holds(orig, in, out) == out = RestoredFrom(orig, in, Restorable(orig, in), 1)
    IN  Holds(acOriginalLines, afterExpand, afterRestore)

\* countLineDiffs has returned
DiffReturned == diffPc = "returned"

\* the lines of a content, as separated by newlines
DiffLines(c) == Split(c, "\n")

\* the injective maps of 1..n onto itself
Reorderings(n) == {p \in [1..n -> 1..n] : \A i \in 1..n, j \in 1..n : p[i] = p[j] => i = j}

\* ms has the lines of ls with the same multiplicities: it is ls or a
\* reordering of ls
SameLines(ls, ms) ==
  /\ Len(ls) = Len(ms)
  /\ \E p \in Reorderings(Len(ls)) : \A i \in 1..Len(ls) : ms[i] = ls[p[i]]

\* C23: for any old and new content, additions - deletions is the number of
\* lines of the new content minus the number of lines of the old one,
\* neither count is negative, and both are 0 when the new content has the
\* lines of the old one with the same multiplicities
C23_CountsAreMultisetDifference ==
  DiffReturned =>
    LET Holds(oldLines, newLines) ==
          /\ additions - deletions = Len(newLines) - Len(oldLines)
          /\ additions >= 0
          /\ deletions >= 0
          /\ SameLines(oldLines, newLines) => (additions = 0 /\ deletions = 0)
    IN  Holds(DiffLines(diffOldContent), DiffLines(diffNewContent))

\* the new content is a true reordering of an old content that has a line
\* twice, and nothing is counted
C23_Witness ==
  /\ DiffReturned
  /\ diffOldContent # diffNewContent
  /\ SameLines(DiffLines(diffOldContent), DiffLines(diffNewContent))
  /\ \E i \in 1..Len(DiffLines(diffOldContent)), j \in 1..Len(DiffLines(diffOldContent)) :
       i # j /\ DiffLines(diffOldContent)[i] = DiffLines(diffOldContent)[j]
  /\ additions = 0
  /\ deletions = 0

====
